---- MODULE Spec2Model ----
(***************************************************************************)
(* A model of the CogniAnchor agent back end:                              *)
(*   app/services/langgraph_agent.py  (agent loop, conversation memory)    *)
(*   app/services/agent_tools.py      (the four tools)                     *)
(*                                                                         *)
(* Python strings that the code takes apart or puts together are modelled  *)
(* as sequences of fragments (TLA+ strings): a literal of the source is    *)
(* one fragment, a spliced value contributes its own fragments.            *)
(***************************************************************************)
EXTENDS Integers, Sequences, FiniteSets, TLC

VARIABLES
    agent_conversations,  \* langgraph_agent.py:254, patient id -> list of entries
    appended,             \* history variable: every entry ever appended, per patient
    reminders,            \* table "reminders": rows in insertion order
    next_id,              \* the id the store gives the next inserted reminder
    emergency_alerts,     \* table "emergency_alerts": rows in insertion order
    now,                  \* datetime.now(), as <<year, month, day, hour, minute>>
    pc,                   \* where the run of run_agent is
    messages,             \* AgentState["messages"], the graph's channel
    state_pair_id,        \* AgentState["pair_id"]
    state_patient_id,     \* AgentState["patient_id"]
    model_turns,          \* runs of the "agent" node (call_agent) in this run
    tool_turns,           \* runs of the "tools" node (ToolNode) in this run
    model_failed,         \* history variable: call_agent's except branch ran
    turn_execs,           \* history variable: tool functions invoked since the last model turn
    result,               \* what run_agent returned
    run_args,             \* run_agent's message and conversation_history, while it
                          \* builds the initial state
    invoked,              \* the last direct tool invocation: [name, args, outcome]
    returned,             \* the string that invocation returned
    heap,                 \* the list objects of agent_conversations, by object id
    refs,                 \* agent_conversations as the dict is: key -> object id
    tpc,                  \* per thread: the statement of the memory function it is at
    targ,                 \* per thread: the arguments of its current call
    tref,                 \* per thread: the list object it has looked up
    ttmp,                 \* per thread: the slice it has computed
    done,                 \* per thread: the calls it has started
    users,                \* history variable: per key, the threads that called with it
    USE_LOCAL_WHISPER,    \* stt_service.py:18, set when the module is imported
    whisper_model,        \* local_whisper_service.py:14, _whisper_model, lazily loaded
    temp_files,           \* the files in temp_audio and temp_whisper: path -> bytes
    spc,                  \* where the transcription call is
    audio_bytes,          \* the argument of transcribe_audio_bytes
    temp_path,            \* stt_service.py:120, the call's file in temp_audio
    whisper_path,         \* local_whisper_service.py:126, the call's file in temp_whisper
    transcription,        \* what the engine answered in this call, if it did
    stt_text,             \* stt_service.py:122, the local "text"
    transcribed,          \* what transcribe_audio_bytes returned
    transcriptions,       \* the calls of transcribe_audio_bytes so far
    wpc,                  \* per worker: the statement of the tool it is at
    wcall,                \* per worker: the tool invocation it runs
    wdata,                \* per worker: result.data of its select
    wtext                 \* per worker: the string its invocation returned

memVars == <<agent_conversations, appended>>

dbVars == <<reminders, next_id, emergency_alerts, now>>

runVars == <<pc, messages, state_pair_id, state_patient_id, model_turns, tool_turns,
            model_failed, turn_execs, result, run_args>>

toolVars == <<invoked, returned>>

thrVars == <<heap, refs, tpc, targ, tref, ttmp, done, users>>

sttVars == <<USE_LOCAL_WHISPER, whisper_model, temp_files, spc, audio_bytes, temp_path,
            whisper_path, transcription, stt_text, transcribed, transcriptions>>

conVars == <<wpc, wcall, wdata, wtext>>

auxVars == <<sttVars, conVars>>

\* what a run of the agent and the atomic memory operations leave alone
restVars == <<toolVars, thrVars, auxVars>>

vars == <<agent_conversations, appended, reminders, next_id, emergency_alerts, now,
          pc, messages, state_pair_id, state_patient_id, model_turns, tool_turns,
          model_failed, turn_execs, result, run_args, invoked, returned,
          heap, refs, tpc, targ, tref, ttmp, done, users,
          USE_LOCAL_WHISPER, whisper_model, temp_files, spc, audio_bytes, temp_path,
          whisper_path, transcription, stt_text, transcribed, transcriptions,
          wpc, wcall, wdata, wtext>>

(***************************************************************************)
(* Bounds of the model.                                                    *)
(***************************************************************************)
MaxAppends == 11

\* appends made for each patient other than MainPatient
MaxOtherAppends == 1

PatientIds == {"p1", "p2"}

MainPatient == "p1"

Roles == {"user", "assistant"}

(***************************************************************************)
(* Generic helpers.                                                        *)
(***************************************************************************)
\* Python's xs[-n:] for n >= 1: the last n elements (all of xs when it is shorter).
LastN(xs, n) ==
    IF Len(xs) <= n THEN xs ELSE SubSeq(xs, Len(xs) - n + 1, Len(xs))

\* the element of a one-element set; {e(x) : x \in {v}} computes v once
The(S) == CHOOSE x \in S : TRUE

IsPrefix(s, t) == Len(s) <= Len(t) /\ SubSeq(t, 1, Len(s)) = s

(***************************************************************************)
(* Characters and strings.  A string whose characters matter (a title, a   *)
(* date, a time) is a sequence of one-character strings.                   *)
(***************************************************************************)
Alphabet ==
    <<" ", "0", "1", "2", "3", "4", "5", "6", "7", "8", "9", ":",
      "A", "B", "C", "D", "E", "F", "G", "H", "I", "J", "K", "L", "M",
      "N", "O", "P", "Q", "R", "S", "T", "U", "V", "W", "X", "Y", "Z",
      "a", "b", "c", "d", "e", "f", "g", "h", "i", "j", "k", "l", "m",
      "n", "o", "p", "q", "r", "s", "t", "u", "v", "w", "x", "y", "z">>

CodeTable ==
    [c \in {Alphabet[i] : i \in 1..Len(Alphabet)} |->
        CHOOSE i \in 1..Len(Alphabet) : Alphabet[i] = c]

\* the position of a character in the code point order (0 for any other one)
Code(c) == IF c \in DOMAIN CodeTable THEN CodeTable[c] ELSE 0

IsDigit(c) == Code(c) >= 2 /\ Code(c) <= 11

DigitVal(c) == Code(c) - 2

IsUpper(c) == Code(c) >= 13 /\ Code(c) <= 38

\* str.lower() on one character
LowerChar(c) == IF IsUpper(c) THEN Alphabet[Code(c) + 26] ELSE c

\* str.lower()
Lower(s) == [i \in 1..Len(s) |-> LowerChar(s[i])]

\* Python's "needle in hay" on strings
Contains(hay, needle) ==
    \E i \in 0..(Len(hay) - Len(needle)) :
        SubSeq(hay, i + 1, i + Len(needle)) = needle

\* s < t in the code point order of strings
RECURSIVE StrLess(_, _)
StrLess(s, t) ==
    IF t = <<>> THEN FALSE
    ELSE IF s = <<>> THEN TRUE
    ELSE IF Code(Head(s)) # Code(Head(t)) THEN Code(Head(s)) < Code(Head(t))
    ELSE StrLess(Tail(s), Tail(t))

\* the maximal runs of non-blank characters of s, in order
RECURSIVE Words(_)
Words(s) ==
    IF s = <<>> THEN <<>>
    ELSE IF Head(s) = " " THEN Words(Tail(s))
    ELSE LET n == IF \E k \in 1..Len(s) : s[k] = " "
                  THEN (CHOOSE k \in 1..Len(s) :
                           s[k] = " " /\ \A j \in 1..(k - 1) : s[j] # " ") - 1
                  ELSE Len(s)
         IN <<SubSeq(s, 1, n)>> \o Words(SubSeq(s, n + 1, Len(s)))

AllDigits(w) == \A i \in 1..Len(w) : IsDigit(w[i])

RECURSIVE NatOf(_)
NatOf(w) == IF w = <<>> THEN 0 ELSE 10 * NatOf(SubSeq(w, 1, Len(w) - 1)) + DigitVal(w[Len(w)])

(***************************************************************************)
(* datetime.strptime(text, "%d %b %Y %I:%M %p"), agent_tools.py:40 and     *)
(* 107-110.  The result is <<year, month, day, hour, minute>>, or          *)
(* ValueError.  Blanks of the format match one or more blanks of the text; *)
(* month names and AM/PM match in any letter case.                         *)
(***************************************************************************)
ValueError == <<>>

MonthNames ==
    << <<"j","a","n">>, <<"f","e","b">>, <<"m","a","r">>, <<"a","p","r">>,
       <<"m","a","y">>, <<"j","u","n">>, <<"j","u","l">>, <<"a","u","g">>,
       <<"s","e","p">>, <<"o","c","t">>, <<"n","o","v">>, <<"d","e","c">> >>

IsLeap(y) == (y % 4 = 0 /\ y % 100 # 0) \/ y % 400 = 0

DaysInMonth(y, m) ==
    IF m = 2 THEN (IF IsLeap(y) THEN 29 ELSE 28)
    ELSE IF m \in {4, 6, 9, 11} THEN 30 ELSE 31

\* %d: one or two digits, 1..31 ("0" and "00" do not match)
DayOf(w) ==
    IF Len(w) \in {1, 2} /\ AllDigits(w) /\ NatOf(w) >= 1 /\ NatOf(w) <= 31
    THEN NatOf(w) ELSE 0

MonthNumber ==
    [name \in {MonthNames[m] : m \in 1..12} |->
        CHOOSE m \in 1..12 : MonthNames[m] = name]

\* %b: an abbreviated month name, in any letter case
MonthOf(w) ==
    The({IF lw \in DOMAIN MonthNumber THEN MonthNumber[lw] ELSE 0 :
            lw \in {Lower(w)}})

\* %Y: exactly four digits; year 0 is no date
YearOf(w) == IF Len(w) = 4 /\ AllDigits(w) THEN NatOf(w) ELSE 0

\* %I:%M as <<hour (1..12), minute>>, or <<>>
ClockOf(w) ==
    LET colons == {i \in 1..Len(w) : w[i] = ":"}
    IN IF Cardinality(colons) # 1 THEN <<>>
       ELSE LET c == CHOOSE i \in colons : TRUE
                h == SubSeq(w, 1, c - 1)
                m == SubSeq(w, c + 1, Len(w))
            IN IF /\ Len(h) \in {1, 2} /\ AllDigits(h)
                  /\ NatOf(h) >= 1 /\ NatOf(h) <= 12
                  /\ Len(m) \in {1, 2} /\ AllDigits(m) /\ NatOf(m) <= 59
               THEN <<NatOf(h), NatOf(m)>> ELSE <<>>

\* %p with %I: the hour of the day
Hour24(h, ampm) ==
    IF Lower(ampm) = <<"p", "m">> THEN (IF h = 12 THEN 12 ELSE h + 12)
    ELSE (IF h = 12 THEN 0 ELSE h)

\* the five fields, once the text is split at its blanks
ParseWords(ws) ==
    IF Len(ws) # 5 THEN ValueError
    ELSE LET d  == DayOf(ws[1])
             mo == MonthOf(ws[2])
             y  == YearOf(ws[3])
             hm == ClockOf(ws[4])
         IN IF \/ d = 0 \/ mo = 0 \/ y = 0 \/ hm = <<>>
               \/ Lower(ws[5]) \notin {<<"a", "m">>, <<"p", "m">>}
            THEN ValueError
            ELSE IF d > DaysInMonth(y, mo) THEN ValueError
            ELSE <<y, mo, d, Hour24(hm[1], ws[5]), hm[2]>>

\* Nothing may precede the day but the one blank of a blank-padded day
\* (" 5"), and nothing may follow AM/PM.
StrptimeOf(text) ==
    IF text = <<>> \/ text[Len(text)] = " " THEN ValueError
    ELSE IF Head(text) = " " /\ ~(/\ Len(text) >= 3 /\ IsDigit(text[2])
                                  /\ text[2] # "0" /\ text[3] = " ")
    THEN ValueError
    ELSE The({ParseWords(ws) : ws \in {Words(text)}})

\* f"{date} {time}"
DateTimeText(date, time) == date \o <<" ">> \o time

\* the date and the time the provider writes into a create_reminder request
GoodDate == <<"2", "5", " ", "D", "e", "c", " ", "2", "0", "2", "5">>

GoodTime == <<"0", "8", ":", "0", "0", " ", "P", "M">>

\* further dates and times given to create_reminder
JanDate == <<"0", "5", " ", "J", "a", "n", " ", "2", "0", "2", "6">>

MorningTime == <<"0", "9", ":", "0", "0", " ", "A", "M">>

EarlyTime == <<"0", "8", ":", "0", "0", " ", "A", "M">>

PastDate == <<"1", "0", " ", "J", "a", "n", " ", "2", "0", "2", "5">>

\* a date and a time with the blank between year and month moved
ShortDate == <<"2", "5", " ", "D", "e", "c">>

LongTime == <<"2", "0", "2", "5", " ", "0", "8", ":", "0", "0", " ", "P", "M">>

IsoDate == <<"2", "0", "2", "5", "-", "1", "2", "-", "2", "5">>

IsoTime == <<"2", "0", ":", "0", "0">>

FebDate == <<"3", "0", " ", "F", "e", "b", " ", "2", "0", "2", "6">>

\* a row written by another client of the table, in no format of this code
OddDate == <<"s", "o", "o", "n">>

OddTime == <<"n", "o", "o", "n">>

\* the (date, time) arguments of create_reminder
DateTimes ==
    {<<GoodDate, GoodTime>>, <<JanDate, MorningTime>>, <<GoodDate, EarlyTime>>,
     <<PastDate, EarlyTime>>, <<ShortDate, LongTime>>, <<IsoDate, IsoTime>>,
     <<GoodDate, IsoTime>>, <<FebDate, MorningTime>>}

\* strptime of the texts that occur, computed once
Parsed ==
    [text \in {DateTimeText(d[1], d[2]) : d \in DateTimes \cup {<<OddDate, OddTime>>}} |->
        StrptimeOf(text)]

strptime(text) == IF text \in DOMAIN Parsed THEN Parsed[text] ELSE StrptimeOf(text)

\* a <= b on datetimes
RECURSIVE TupleLeq(_, _)
TupleLeq(a, b) ==
    IF a = <<>> THEN TRUE
    ELSE IF Head(a) # Head(b) THEN Head(a) < Head(b)
    ELSE TupleLeq(Tail(a), Tail(b))

(***************************************************************************)
(* The data store (supabase), seen through the calls agent_tools.py makes. *)
(* db is [reminders, next_id, emergency_alerts].  Each tool is an operator *)
(* from the store, its arguments and what the store does this time         *)
(* ("ok", or the call that raises) to [db, text]: the store after it and   *)
(* the string it returns.                                                  *)
(***************************************************************************)
ExcText == "<exception text>"

\* ", ".join(xs) and "\n".join(xs) for a list of strings
RECURSIVE Join(_, _)
Join(xs, sep) ==
    IF xs = <<>> THEN <<>>
    ELSE IF Len(xs) = 1 THEN xs[1]
    ELSE xs[1] \o <<sep>> \o Join(Tail(xs), sep)

\* a select without .eq("pair_id", pair_id)
RowsOfAnyPair(rows, pair_id) == rows

\* .eq("pair_id", pair_id): the rows of a pair, in the table's order
RowsOfPair(rows, pair_id) == SelectSeq(rows, LAMBDA r : r.pair_id = pair_id)

\* ---- create_reminder, agent_tools.py:16-64 ----
CreateOutcomes == {"ok", "noclient", "raise", "nodata"}

InvalidFormatText ==
    <<"Error: Invalid date/time format. Please use 'dd MMM yyyy' for date and 'hh:mm AM/PM' for time. Error: ",
      "<ValueError text>">>

CreatedText(title, date, time) ==
    <<"Reminder created successfully! I'll remind you about '">> \o title
      \o <<"' on ">> \o date \o <<" at ">> \o time \o <<".">>

\* create_reminder reporting success for a row it never inserted
create_reminder_unsaved(db, pair_id, title, date, time, outcome) ==
    IF strptime(DateTimeText(date, time)) = ValueError
    THEN [db |-> db, text |-> InvalidFormatText]
    ELSE [db |-> db, text |-> CreatedText(title, date, time)]

create_reminder(db, pair_id, title, date, time, outcome) ==
    IF strptime(DateTimeText(date, time)) = ValueError
    THEN [db |-> db, text |-> InvalidFormatText]                      \* line 42
    ELSE IF outcome \in {"noclient", "raise"}
    THEN [db |-> db,                                                  \* line 64
          text |-> <<"Error: Failed to create reminder - ", ExcText>>]
    ELSE IF outcome = "nodata"
    THEN [db |-> db,                                                  \* line 55
          text |-> <<"Error: Failed to create reminder in database">>]
    ELSE [db |-> [db EXCEPT
                    !.reminders = Append(@, [id |-> db.next_id, pair_id |-> pair_id,
                                             title |-> title, date |-> date,
                                             time |-> time]),
                    !.next_id = @ + 1],
          text |-> CreatedText(title, date, time)]                    \* line 60

\* ---- list_reminders, agent_tools.py:68-130 ----
ListOutcomes == {"ok", "noclient", "raise"}

\* .order("date").order("time"): the store compares the two text columns
RowBefore(a, b) ==
    \/ StrLess(a.date, b.date)
    \/ a.date = b.date /\ StrLess(a.time, b.time)

RECURSIVE InsertRow(_, _)
InsertRow(sorted, r) ==
    IF sorted = <<>> THEN <<r>>
    ELSE IF RowBefore(r, Head(sorted)) THEN <<r>> \o sorted
    ELSE <<Head(sorted)>> \o InsertRow(Tail(sorted), r)

RECURSIVE OrderRows(_)
OrderRows(rows) ==
    IF rows = <<>> THEN <<>>
    ELSE InsertRow(OrderRows(SubSeq(rows, 1, Len(rows) - 1)), rows[Len(rows)])

\* the comparison of line 110 as "reminder_dt > now"
IsUpcomingStrict(r, t) ==
    LET dt == strptime(DateTimeText(r.date, r.time))
    IN dt # ValueError /\ dt # t /\ TupleLeq(t, dt)

\* lines 105-114: the rows that parse and are not before now
IsUpcoming(r, t) ==
    LET dt == strptime(DateTimeText(r.date, r.time))
    IN dt # ValueError /\ TupleLeq(t, dt)

Upcoming(rows, t) == SelectSeq(rows, LAMBDA r : IsUpcoming(r, t))

\* line 123
ReminderLine(idx, r) ==
    <<ToString(idx), ". ">> \o r.title \o <<" - ">> \o r.date \o <<" at ">> \o r.time

ListText(rows) ==
    <<"You have ", ToString(Len(rows)), " upcoming reminder(s):\n">>
      \o Join([i \in 1..Len(rows) |-> ReminderLine(i, rows[i])], "\n")

\* lines 98-126, given result.data
ListFrom(data, t) ==
    IF data = <<>>
    THEN <<"You don't have any reminders set right now.">>           \* line 99
    ELSE The({IF upcoming_reminders = <<>>
              THEN <<"All your reminders have passed. You don't have any upcoming reminders.">>
              ELSE ListText(upcoming_reminders) :                     \* line 126
                 upcoming_reminders \in {Upcoming(data, t)}})

\* list_reminders deleting the reminders of the pair that it does not list
list_reminders_pruning(db, pair_id, outcome, t) ==
    [db |-> IF outcome \in {"noclient", "raise"} THEN db
            ELSE [db EXCEPT !.reminders =
                     SelectSeq(@, LAMBDA r : r.pair_id # pair_id \/ IsUpcoming(r, t))],
     text |->
       IF outcome \in {"noclient", "raise"}
       THEN <<"Error: Failed to fetch reminders - ", ExcText>>
       ELSE The({ListFrom(data, t) :
                    data \in {OrderRows(RowsOfPair(db.reminders, pair_id))}})]

\* list_reminders whose except branch (lines 128-130) returns nothing
list_reminders_silent(db, pair_id, outcome, t) ==
    [db |-> db,
     text |->
       IF outcome \in {"noclient", "raise"}
       THEN <<>>
       ELSE The({ListFrom(data, t) :
                    data \in {OrderRows(RowsOfPair(db.reminders, pair_id))}})]

list_reminders(db, pair_id, outcome, t) ==
    [db |-> db,
     text |->
       IF outcome \in {"noclient", "raise"}
       THEN <<"Error: Failed to fetch reminders - ", ExcText>>       \* line 130
       ELSE The({ListFrom(data, t) :
                    data \in {OrderRows(RowsOfPair(db.reminders, pair_id))}})]

\* ---- delete_reminder, agent_tools.py:134-188 ----
DeleteOutcomes == {"ok", "noclient", "raise", "raise_delete"}

\* a match that stops at the first reminder it finds
MatchingFirst(rows, reminder_title) ==
    LET all == SelectSeq(rows, LAMBDA r : Contains(Lower(r.title), Lower(reminder_title)))
    IN IF all = <<>> THEN <<>> ELSE <<all[1]>>

\* the match of lines 166-169 without .lower()
MatchingCaseSensitive(rows, reminder_title) ==
    SelectSeq(rows, LAMBDA r : Contains(r.title, reminder_title))

\* lines 166-169
Matching(rows, reminder_title) ==
    SelectSeq(rows, LAMBDA r : Contains(Lower(r.title), Lower(reminder_title)))

DeletedText(r) ==
    <<"I've deleted the reminder '">> \o r.title \o <<"' scheduled for ">>
      \o r.date \o <<" at ">> \o r.time \o <<".">>

\* lines 162-184 without the test of line 174: the first match is deleted
DeleteFirstMatch(db, data, matching_reminders, reminder_title, outcome) ==
    IF data = <<>>
    THEN [db |-> db, text |-> <<"You don't have any reminders to delete.">>]
    ELSE IF matching_reminders = <<>>
    THEN [db |-> db,
          text |-> <<"I couldn't find a reminder matching '">> \o reminder_title
                     \o <<"'. Please check the reminder title and try again.">>]
    ELSE [db |-> [db EXCEPT !.reminders =
                     SelectSeq(@, LAMBDA r : r.id # matching_reminders[1].id)],
          text |-> DeletedText(matching_reminders[1])]

\* lines 162-184, given result.data and the matching rows
DeleteFrom(db, data, matching_reminders, reminder_title, outcome) ==
    IF data = <<>>
    THEN [db |-> db, text |-> <<"You don't have any reminders to delete.">>]
    ELSE IF matching_reminders = <<>>
    THEN [db |-> db,
          text |-> <<"I couldn't find a reminder matching '">> \o reminder_title
                     \o <<"'. Please check the reminder title and try again.">>]
    ELSE IF Len(matching_reminders) > 1
    THEN [db |-> db,
          text |-> <<"Found multiple reminders matching '">> \o reminder_title
                     \o <<"': ">>
                     \o Join([i \in 1..Len(matching_reminders) |->
                                 matching_reminders[i].title], ", ")
                     \o <<". Please be more specific.">>]
    ELSE IF outcome = "raise_delete"
    THEN [db |-> db, text |-> <<"Error: Failed to delete reminder - ", ExcText>>]
    ELSE [db |-> [db EXCEPT !.reminders =                             \* line 180
                     SelectSeq(@, LAMBDA r : r.id # matching_reminders[1].id)],
          text |-> DeletedText(matching_reminders[1])]

\* delete_reminder without .eq("pair_id", pair_id) in its select
delete_reminder_any_pair(db, pair_id, reminder_title, outcome) ==
    IF outcome \in {"noclient", "raise"}
    THEN [db |-> db, text |-> <<"Error: Failed to delete reminder - ", ExcText>>]
    ELSE DeleteFrom(db, db.reminders, Matching(db.reminders, reminder_title),
                    reminder_title, outcome)

delete_reminder(db, pair_id, reminder_title, outcome) ==
    IF outcome \in {"noclient", "raise"}
    THEN [db |-> db, text |-> <<"Error: Failed to delete reminder - ", ExcText>>]
    ELSE The({DeleteFrom(db, data, Matching(data, reminder_title),
                         reminder_title, outcome) :
                 data \in {RowsOfPair(db.reminders, pair_id)}})

\* ---- send_emergency_alert, agent_tools.py:192-250 ----
AlertOutcomes == {"ok", "noclient", "raise"}

\* send_emergency_alert inserting the alert a second time
send_emergency_alert_twice(db, pair_id, reason, outcome, t) ==
    IF outcome = "noclient"
    THEN [db |-> db, text |-> <<"I'm here with you. Let me help you feel safe.">>]
    ELSE [db |-> IF outcome = "raise" THEN db
                 ELSE [db EXCEPT !.emergency_alerts =
                          @ \o [i \in 1..2 |->
                                  [pair_id |-> pair_id, alert_type |-> "emergency",
                                   reason |-> reason, timestamp |-> t,
                                   status |-> "pending"]]],
          text |-> <<"I've notified your caregiver about this situation. Help is on the way. Please stay calm.">>]

\* send_emergency_alert reporting the failure of the store as the other
\* tools do
send_emergency_alert_reporting(db, pair_id, reason, outcome, t) ==
    IF outcome \in {"noclient", "raise"}
    THEN [db |-> db, text |-> <<"Error: Failed to send alert - ", ExcText>>]
    ELSE [db |-> [db EXCEPT !.emergency_alerts =
                     Append(@, [pair_id |-> pair_id, alert_type |-> "emergency",
                                reason |-> reason, timestamp |-> t,
                                status |-> "pending"])],
          text |-> <<"I've notified your caregiver about this situation. Help is on the way. Please stay calm.">>]

send_emergency_alert(db, pair_id, reason, outcome, t) ==
    IF outcome = "noclient"
    THEN [db |-> db, text |-> <<"I'm here with you. Let me help you feel safe.">>]
    ELSE [db |-> IF outcome = "raise" THEN db                         \* lines 234-236
                 ELSE [db EXCEPT !.emergency_alerts =
                          Append(@, [pair_id |-> pair_id, alert_type |-> "emergency",
                                     reason |-> reason, timestamp |-> t,
                                     status |-> "pending"])],
          text |-> <<"I've notified your caregiver about this situation. Help is on the way. Please stay calm.">>]

(***************************************************************************)
(* Messages (langchain_core.messages).  content is a string; tool_calls is *)
(* the list of tool-invocation requests of an AIMessage, each              *)
(* [id, name, args]; tool_call_id tags a ToolMessage with its request.     *)
(***************************************************************************)
NoId == <<>>

HumanMessage(content) ==
    [type |-> "human", content |-> content, tool_calls |-> <<>>, tool_call_id |-> NoId]

AIMessage(content, tool_calls) ==
    [type |-> "ai", content |-> content, tool_calls |-> tool_calls, tool_call_id |-> NoId]

ToolMessage(content, tool_call_id) ==
    [type |-> "tool", content |-> content, tool_calls |-> <<>>,
     tool_call_id |-> tool_call_id]

SystemMessage == [type |-> "system", content |-> <<"AGENT_SYSTEM_PROMPT">>,
                  tool_calls |-> <<>>, tool_call_id |-> NoId]

(***************************************************************************)
(* What the model of this development lets the callers and the model       *)
(* provider choose from.                                                   *)
(***************************************************************************)
PairIds == {"pairA", "pairB"}

MaxHistory == 2

MaxCalls == 2

\* Spec: the provider asks for tools in at most this many turns of a run
MaxToolRounds == 1

HistoryRoles == {"user", "assistant", "system"}

HistoryEntries == {[role |-> r, content |-> <<"earlier">>] : r \in HistoryRoles}

UserTexts == {<<"Remind me to take my pills">>}

\* reply texts of the provider; the empty string is one of them
ReplyTexts == {<<>>, <<"Of course.">>}

PillsTitle == <<"P", "i", "l", "l", "s">>

TitleFragment == <<"p", "i", "l", "l">>

FellReason == <<"I fell">>

\* langgraph_agent.py:84, the tools bound to the model and given to ToolNode
ToolNames == {"create_reminder", "list_reminders", "delete_reminder", "send_emergency_alert"}

UnknownToolName == "get_weather"

\* the pair ids the provider writes into the arguments of a request: the
\* tools take pair_id from the request (agent_tools.py:16, 68, 134, 192)
RequestPairs == {"pairA"}

\* the requests (name and arguments) the provider may make
Requests ==
    {[name |-> "create_reminder",
      args |-> [pair_id |-> p, title |-> PillsTitle, date |-> GoodDate,
                time |-> GoodTime]] : p \in RequestPairs}
    \cup {[name |-> "list_reminders", args |-> [pair_id |-> p]] : p \in RequestPairs}
    \cup {[name |-> "delete_reminder",
           args |-> [pair_id |-> p, reminder_title |-> TitleFragment]] :
              p \in RequestPairs}
    \cup {[name |-> "send_emergency_alert",
           args |-> [pair_id |-> p, reason |-> FellReason]] : p \in RequestPairs}
    \cup {[name |-> UnknownToolName, args |-> [city |-> <<"Paris">>]]}

\* the requests of a provider that never asks for a change of the store
ReadOnlyRequests ==
    {r \in Requests : r.name \in {"list_reminders", UnknownToolName}}

SeqsUpTo(S, n) == UNION {[1..k -> S] : k \in 0..n}

\* the provider numbers the requests of a message; ids differ between turns
WithIds(reqs, turn) ==
    [i \in 1..Len(reqs) |->
        [id |-> <<turn, i>>, name |-> reqs[i].name, args |-> reqs[i].args]]

(***************************************************************************)
(* The agent graph, langgraph_agent.py:97-186, as LangGraph runs it.       *)
(***************************************************************************)
AgentErrorText == <<"I'm having trouble right now. Let me try to help you anyway.">>

RunErrorText ==
    <<"I'm having some trouble right now, but I'm here with you. How can I help?">>

FallbackText == <<"I'm here to help. What would you like to know?">>

\* agent.invoke(initial_state), line 231, passes no config: LangGraph's default
\* recursion_limit applies, and invoke raises GraphRecursionError when the
\* graph has not reached END after that many supersteps.
RecursionLimit == 25

\* AgentState.messages, lines 24-28: Annotated[Sequence[BaseMessage], "..."].
\* The annotation's metadata is a string, not a reducer function, so StateGraph
\* makes "messages" a last-value channel: a node's update replaces the value.
UpdateChannel(old, update) == update

\* the supersteps (graph nodes) agent.invoke has executed
Steps == model_turns + tool_turns

\* should_continue with the test inverted
ShouldContinueInverted(msgs) ==
    IF msgs[Len(msgs)].tool_calls # <<>> THEN "END" ELSE "tools"

\* should_continue, lines 124-138
should_continue(msgs) ==
    IF msgs[Len(msgs)].tool_calls # <<>> THEN "tools" ELSE "END"

\* what the model is given in a turn, lines 105-107
ModelInput(msgs) == <<SystemMessage>> \o msgs

\* call_agent's except branch passing the exception's text on
ErrorResponseRaw == AIMessage(<<ExcText>>, <<>>)

\* call_agent's except branch, lines 117-121
ErrorResponse == AIMessage(AgentErrorText, <<>>)

\* a graph that runs without a limit on its supersteps
NextPcNoLimit(route, n) == IF route = "END" THEN "Done" ELSE route

\* a run_agent whose except branch (lines 246-248) lets the exception through
NextPcRaise(route, n) ==
    IF route = "END" THEN "Done"
    ELSE IF n >= RecursionLimit THEN "Raised"
    ELSE route

\* after a node that ran as superstep n: the next node, or GraphRecursionError,
\* which run_agent catches at line 246
NextPc(route, n) ==
    IF route = "END" THEN "Done"
    ELSE IF n >= RecursionLimit THEN "Returned"
    ELSE route

NextResult(route, n) ==
    IF route # "END" /\ n >= RecursionLimit THEN RunErrorText ELSE <<>>

\* run_agent up to agent.invoke, lines 204-231.  graph_ok: create_agent_graph
\* (and with it create_agent_llm, lines 67-92) did not raise.
InitialMessagesAllHuman(conversation_history, message) ==
    LET kept == SelectSeq(conversation_history,
                          LAMBDA e : e.role \in {"user", "assistant"})
    IN [i \in 1..Len(kept) |-> HumanMessage(kept[i].content)]
       \o <<HumanMessage(message)>>

InitialMessages(conversation_history, message) ==
    LET kept == SelectSeq(conversation_history,
                          LAMBDA e : e.role \in {"user", "assistant"})
    IN [i \in 1..Len(kept) |->
          IF kept[i].role = "user" THEN HumanMessage(kept[i].content)
          ELSE AIMessage(kept[i].content, <<>>)]
       \o <<HumanMessage(message)>>

\* run_args holds the two arguments the loop of lines 213-221 reads; nothing
\* reads them once agent.invoke (line 231) has the initial state
NoRunArgs == [message |-> <<>>, conversation_history |-> <<>>]

RunAgent ==
    /\ pc = "Idle"
    /\ \E p \in {MainPatient}, q \in PairIds, m \in UserTexts,
          h \in SeqsUpTo(HistoryEntries, MaxHistory), graph_ok \in BOOLEAN :
          /\ state_patient_id' = p
          /\ state_pair_id' = q
          /\ run_args' = [message |-> m, conversation_history |-> h]
          /\ IF graph_ok
             THEN /\ messages' = InitialMessages(h, m)
                  /\ pc' = "AgentTurn"
                  /\ result' = <<>>
             ELSE /\ messages' = <<>>
                  /\ pc' = "Returned"
                  /\ result' = RunErrorText
    /\ UNCHANGED <<model_turns, tool_turns, model_failed, turn_execs, memVars, dbVars, restVars>>

\* the "agent" node, call_agent (lines 97-121), and the conditional edge after
\* it; batches: the lists of requests the provider may answer with
CallAgentWith(batches) ==
    /\ pc = "AgentTurn"
    /\ \E ok \in BOOLEAN, content \in ReplyTexts, reqs \in batches :
          LET response == IF ok THEN AIMessage(content, WithIds(reqs, model_turns + 1))
                          ELSE ErrorResponse
              msgs == UpdateChannel(messages, <<response>>)
              route == IF should_continue(msgs) = "tools" THEN "ToolTurn" ELSE "END"
          IN /\ (~ok) => (content = <<>> /\ reqs = <<>>)
             /\ messages' = msgs
             /\ model_failed' = ~ok
             /\ turn_execs' = 0
             /\ model_turns' = model_turns + 1
             /\ pc' = NextPc(route, Steps + 1)
             /\ run_args' = NoRunArgs
             /\ result' = NextResult(route, Steps + 1)
    /\ UNCHANGED <<state_pair_id, state_patient_id, tool_turns, memVars, dbVars, restVars>>

CallAgent ==
    CallAgentWith(IF model_turns < MaxToolRounds
                  THEN SeqsUpTo(Requests, MaxCalls) ELSE {<<>>})

CallAgentDeep == CallAgentWith(SeqsUpTo(ReadOnlyRequests, MaxCalls))

\* the requests of a provider that also asks for a reminder in a format of
\* its own and for the tools of another pair
FailRequests ==
    Requests
    \cup {[name |-> "create_reminder",
           args |-> [pair_id |-> "pairA", title |-> PillsTitle, date |-> IsoDate,
                     time |-> IsoTime]],
          [name |-> "list_reminders", args |-> [pair_id |-> "pairB"]],
          [name |-> "delete_reminder",
           args |-> [pair_id |-> "pairB", reminder_title |-> TitleFragment]],
          [name |-> "send_emergency_alert",
           args |-> [pair_id |-> "pairB", reason |-> FellReason]]}

\* a provider that asks for one tool at a time
CallAgentSingle ==
    CallAgentWith(IF model_turns < MaxToolRounds
                  THEN {<<>>} \cup {<<r>> : r \in FailRequests} ELSE {<<>>})

\* ToolNode's answer to a request that names none of its tools
InvalidToolText(name) ==
    <<"Error: ", name, " is not a valid tool, try one of [",
      "create_reminder, list_reminders, delete_reminder, send_emergency_alert", "].">>

\* what the store does during a tool invocation of a run: it works, or the
\* tool's first call of it raises
StoreOutcomes == {"ok", "raise"}

\* a dispatch that hands a request with an unknown name to the first tool
DispatchUnknownToFirst(db, call, outcome, t) ==
    CASE call.name = "list_reminders" -> list_reminders(db, call.args.pair_id, outcome, t)
      [] call.name = "delete_reminder" ->
            delete_reminder(db, call.args.pair_id, call.args.reminder_title, outcome)
      [] call.name = "send_emergency_alert" ->
            send_emergency_alert(db, call.args.pair_id, call.args.reason, outcome, t)
      [] call.name = "create_reminder" ->
            create_reminder(db, call.args.pair_id, call.args.title, call.args.date,
                            call.args.time, outcome)
      [] OTHER -> create_reminder(db, "pairA", PillsTitle, GoodDate, GoodTime, outcome)

\* ToolNode(tools), line 160: one request, dispatched by name to the tool
\* function, whose arguments are the request's arguments
Dispatch(db, call, outcome, t) ==
    CASE call.name = "create_reminder" ->
            create_reminder(db, call.args.pair_id, call.args.title, call.args.date,
                            call.args.time, outcome)
      [] call.name = "list_reminders" -> list_reminders(db, call.args.pair_id, outcome, t)
      [] call.name = "delete_reminder" ->
            delete_reminder(db, call.args.pair_id, call.args.reminder_title, outcome)
      [] call.name = "send_emergency_alert" ->
            send_emergency_alert(db, call.args.pair_id, call.args.reason, outcome, t)
      [] OTHER -> [db |-> db, text |-> InvalidToolText(call.name)]

Orders(n) == {f \in [1..n -> 1..n] : \A i, j \in 1..n : i # j => f[i] # f[j]}

\* whether ToolNode calls a tool function for the request (1) or not (0)
Invoked(call) == IF call.name \in ToolNames THEN 1 ELSE 0

\* ToolNode runs the requests of a message on a thread pool: they take effect
\* in some order, order[1] first.  The result is the store after the first k
\* of them, the number of tool functions called and the texts returned so
\* far, by position of the request.
RECURSIVE RunBatch(_, _, _, _, _, _)
RunBatch(db, calls, order, outcomes, t, k) ==
    IF k = 0 THEN [db |-> db, execs |-> 0, texts |-> [i \in {} |-> <<>>]]
    ELSE CHOOSE after \in
            {[db |-> r.db,
              execs |-> before.execs + Invoked(calls[order[k]]),
              texts |-> [j \in (DOMAIN before.texts) \cup {order[k]} |->
                           IF j = order[k] THEN r.text ELSE before.texts[j]]] :
                <<before, r>> \in
                   {<<b, Dispatch(b.db, calls[order[k]], outcomes[order[k]], t)>> :
                       b \in {RunBatch(db, calls, order, outcomes, t, k - 1)}}} : TRUE

\* a ToolNode that tags a result with its position in the batch, not with the
\* request's id
ToolMessagesUntagged(calls, texts) ==
    [i \in 1..Len(calls) |-> ToolMessage(texts[i], <<0, i>>)]

\* a ToolNode that answers only the first request of a message
ToolMessagesFirstOnly(calls, texts) ==
    <<ToolMessage(texts[1], calls[1].id)>>

\* ToolNode's output: one ToolMessage per request, in the order of the requests
ToolMessages(calls, texts) ==
    [i \in 1..Len(calls) |-> ToolMessage(texts[i], calls[i].id)]

CurrentDb ==
    [reminders |-> reminders, next_id |-> next_id, emergency_alerts |-> emergency_alerts]

\* the "tools" node, ToolNode(tools) (line 160), and the edge back to "agent"
\* (line 176); store_outcomes: what the store may do during an invocation
ToolNodeWith(store_outcomes) ==
    /\ pc = "ToolTurn"
    /\ LET calls == messages[Len(messages)].tool_calls
           n == Len(calls)
       IN \E order \in Orders(n), outcomes \in [1..n -> store_outcomes] :
            \E run \in {RunBatch(CurrentDb, calls, order, outcomes, now, n)} :
               /\ reminders' = run.db.reminders
               /\ next_id' = run.db.next_id
               /\ emergency_alerts' = run.db.emergency_alerts
               /\ messages' = UpdateChannel(messages, ToolMessages(calls, run.texts))
               /\ turn_execs' = run.execs
    /\ tool_turns' = tool_turns + 1
    /\ pc' = NextPc("AgentTurn", Steps + 1)
    /\ result' = NextResult("AgentTurn", Steps + 1)
    /\ UNCHANGED <<state_pair_id, state_patient_id, model_turns, model_failed, run_args, now, memVars,
                   restVars>>

ToolNode == ToolNodeWith(StoreOutcomes)

\* every way the store fails a tool: the client cannot be had, the select or
\* insert raises, the insert returns no data, the delete raises
AllOutcomes == CreateOutcomes \cup ListOutcomes \cup DeleteOutcomes \cup AlertOutcomes

ToolNodeAnyOutcome == ToolNodeWith(AllOutcomes)

\* lines 236-244 without the "and msg.content" test
FinalResponseAnyContent(msgs) ==
    LET ai == {i \in 1..Len(msgs) : msgs[i].type = "ai"}
    IN IF ai = {} THEN FallbackText
       ELSE msgs[CHOOSE i \in ai : \A j \in ai : j <= i].content

\* lines 236-244: the content of the last AI message that has any, or the fallback
FinalResponse(msgs) ==
    LET ai == {i \in 1..Len(msgs) : msgs[i].type = "ai" /\ msgs[i].content # <<>>}
    IN IF ai = {} THEN FallbackText
       ELSE msgs[CHOOSE i \in ai : \A j \in ai : j <= i].content

\* run_agent after agent.invoke returned, lines 233-244
Finish ==
    /\ pc = "Done"
    /\ result' = FinalResponse(messages)
    /\ pc' = "Returned"
    /\ UNCHANGED <<messages, state_pair_id, state_patient_id, model_turns, tool_turns, run_args,
                   model_failed, turn_execs, memVars, dbVars, restVars>>

(***************************************************************************)
(* Conversation memory, langgraph_agent.py:251-274.                        *)
(* agent_conversations is a dict: a function on the set of keys present.   *)
(***************************************************************************)
HistoryCap == 10

\* the total number of add_to_agent_history calls so far
TotalAppended ==
    LET RECURSIVE Sum(_)
        Sum(S) == IF S = {} THEN 0
                  ELSE LET p == CHOOSE x \in S : TRUE
                       IN Len(appended[p]) + Sum(S \ {p})
    IN Sum(PatientIds)

\* lines 258-259 and 264-265: "if patient_id not in agent_conversations: ... = []"
EnsureKey(conv, patient_id) ==
    IF patient_id \in DOMAIN conv
    THEN conv
    ELSE [p \in (DOMAIN conv) \cup {patient_id} |->
            IF p = patient_id THEN <<>> ELSE conv[p]]

\* lines 272-274 with an off-by-one slice ([-9:])
TrimOffByOne(xs) == IF Len(xs) > HistoryCap THEN LastN(xs, HistoryCap - 1) ELSE xs

\* lines 272-274: "if len(h) > 10: h = h[-10:]"
Trim(xs) == IF Len(xs) > HistoryCap THEN LastN(xs, HistoryCap) ELSE xs

\* get_agent_history, lines 256-260: lazily creates the key, returns the list
get_agent_history(patient_id) ==
    /\ agent_conversations' = EnsureKey(agent_conversations, patient_id)
    /\ UNCHANGED <<appended, dbVars, runVars, restVars>>

\* add_to_agent_history, lines 262-274
add_to_agent_history(patient_id, role, content) ==
    LET conv  == EnsureKey(agent_conversations, patient_id)
        entry == [role |-> role, content |-> content]
    IN /\ agent_conversations' =
             [conv EXCEPT ![patient_id] = Trim(Append(@, entry))]
       /\ appended' = [appended EXCEPT ![patient_id] = Append(@, entry)]
       /\ UNCHANGED <<dbVars, runVars, restVars>>

\* The content of the n-th call is n, so that entries can be told apart.
GetHistory ==
    \E p \in PatientIds : get_agent_history(p)

AddToHistory ==
    /\ TotalAppended < MaxAppends
    /\ \E p \in PatientIds, r \in Roles :
          /\ p = MainPatient \/ Len(appended[p]) < MaxOtherAppends
          /\ add_to_agent_history(p, r, TotalAppended + 1)

(***************************************************************************)
(* The tools called one at a time, agent_tools.py:15-250, on a table that  *)
(* other clients write as well, while time passes.                         *)
(***************************************************************************)
\* rows and alert records inserted in one behaviour
MaxInserts == 2

StartTime == <<2025, 1, 15, 9, 0>>

\* the moment of GoodDate at GoodTime
LaterTime == <<2025, 12, 25, 20, 0>>

BoxTitle == <<"p", "i", "l", "l", " ", "b", "o", "x">>

WalkTitle == <<"W", "a", "l", "k">>

TeaTitle == <<"T", "e", "a">>

WalkFragment == <<"W", "A", "L", "K">>

NoFragment == <<"x", "y", "z">>

\* the (title, date, time) arguments of create_reminder
ReminderInputs ==
    {[title |-> PillsTitle, date |-> GoodDate, time |-> GoodTime],
     [title |-> BoxTitle, date |-> JanDate, time |-> MorningTime],
     [title |-> WalkTitle, date |-> GoodDate, time |-> EarlyTime],
     [title |-> WalkTitle, date |-> PastDate, time |-> EarlyTime],
     [title |-> PillsTitle, date |-> ShortDate, time |-> LongTime],
     [title |-> PillsTitle, date |-> IsoDate, time |-> IsoTime],
     [title |-> PillsTitle, date |-> GoodDate, time |-> IsoTime],
     [title |-> WalkTitle, date |-> FebDate, time |-> MorningTime]}

\* the arguments of create_reminder: every input for the first pair, one for
\* the second
CreateInputs ==
    {[pair_id |-> p, title |-> r.title, date |-> r.date, time |-> r.time] :
        p \in {"pairA"}, r \in ReminderInputs}
    \cup {[pair_id |-> "pairB", title |-> PillsTitle, date |-> GoodDate,
           time |-> GoodTime]}

Fragments == {TitleFragment, WalkFragment, NoFragment}

Inserts == (next_id - 1) + Len(emergency_alerts)

NoCall == [name |-> "none", args |-> <<>>, outcome |-> "ok"]

\* a tool called with args while the store behaves as outcome says; r is what
\* the tool makes of it: the store afterwards and the string returned
Invoke(name, args, outcome, r) ==
    /\ reminders' = r.db.reminders
    /\ next_id' = r.db.next_id
    /\ emergency_alerts' = r.db.emergency_alerts
    /\ invoked' = [name |-> name, args |-> args, outcome |-> outcome]
    /\ returned' = r.text
    /\ UNCHANGED <<now, memVars, runVars, thrVars, auxVars>>

CreateReminder ==
    /\ Inserts < MaxInserts
    /\ \E a \in CreateInputs, outcome \in CreateOutcomes :
          \E r \in {create_reminder(CurrentDb, a.pair_id, a.title, a.date, a.time,
                                    outcome)} :
             Invoke("create_reminder", a, outcome, r)

ListReminders ==
    \E p \in PairIds, outcome \in ListOutcomes :
       \E r \in {list_reminders(CurrentDb, p, outcome, now)} :
          Invoke("list_reminders", [pair_id |-> p], outcome, r)

DeleteReminder ==
    \E p \in PairIds, f \in Fragments, outcome \in DeleteOutcomes :
       \E r \in {delete_reminder(CurrentDb, p, f, outcome)} :
          Invoke("delete_reminder", [pair_id |-> p, reminder_title |-> f], outcome, r)

SendEmergencyAlert ==
    /\ Inserts < MaxInserts
    /\ \E p \in PairIds, outcome \in AlertOutcomes :
          \E r \in {send_emergency_alert(CurrentDb, p, FellReason, outcome, now)} :
             Invoke("send_emergency_alert", [pair_id |-> p, reason |-> FellReason],
                    outcome, r)

\* another client of the table inserts a row of its own; invoked and returned
\* tell of a tool call only in the state that the call leads to
OtherClientInsert ==
    /\ Inserts < MaxInserts
    /\ reminders' = Append(reminders, [id |-> next_id, pair_id |-> "pairA",
                                        title |-> TeaTitle, date |-> OddDate,
                                        time |-> OddTime])
    /\ next_id' = next_id + 1
    /\ invoked' = NoCall
    /\ returned' = <<>>
    /\ UNCHANGED <<emergency_alerts, now, memVars, runVars, thrVars, auxVars>>

\* datetime.now() moves on
Tick ==
    /\ now = StartTime
    /\ now' = LaterTime
    /\ invoked' = NoCall
    /\ returned' = <<>>
    /\ UNCHANGED <<reminders, next_id, emergency_alerts, memVars, runVars, thrVars, auxVars>>

ToolInit ==
    /\ invoked = NoCall
    /\ returned = <<>>


DbInit ==
    /\ reminders = <<>>
    /\ next_id = 1
    /\ emergency_alerts = <<>>
    /\ now = StartTime

RunInit ==
    /\ pc = "Idle"
    /\ messages = <<>>
    /\ state_pair_id = ""
    /\ state_patient_id = ""
    /\ model_turns = 0
    /\ tool_turns = 0
    /\ model_failed = FALSE
    /\ turn_execs = 0
    /\ result = <<>>
    /\ run_args = NoRunArgs

(***************************************************************************)
(* The memory functions run by threads, one statement at a time,           *)
(* langgraph_agent.py:256-274.  A Python list is an object: the dict       *)
(* agent_conversations holds references (refs) to list objects (heap), and *)
(* agent_conversations, the variable, is the dict read through them.  A    *)
(* label is the line a thread is about to run; lines 267 and 274 are two   *)
(* steps each: the lookup of the list, then the call or the store.         *)
(***************************************************************************)
Threads == {"t1", "t2"}

\* calls started by each thread
MaxThreadCalls == 2

\* the keys a thread calls with: the first thread keeps to one key
KeysOf(t) == IF t = "t1" THEN {MainPatient} ELSE PatientIds

NoArgs == [patient_id |-> "", role |-> "", content |-> <<>>]

\* the dict with the list objects in the place of their references
Conversations(h, r) == [p \in DOMAIN r |-> h[r[p]]]

\* an assignment that makes every key of the dict refer to the new list
BindShared(h, r, patient_id, xs) ==
    [heap |-> Append(h, xs),
     refs |-> [p \in (DOMAIN r) \cup {patient_id} |-> Len(h) + 1]]

\* agent_conversations[patient_id] = xs, for a new list object xs
Bind(h, r, patient_id, xs) ==
    [heap |-> Append(h, xs),
     refs |-> [p \in (DOMAIN r) \cup {patient_id} |->
                 IF p = patient_id THEN Len(h) + 1 ELSE r[p]]]

SetMemory(h, r) ==
    /\ heap' = h
    /\ refs' = r
    /\ agent_conversations' = Conversations(h, r)

Goto(t, label) == tpc' = [tpc EXCEPT ![t] = label]

\* a thread calls get_agent_history or add_to_agent_history
StartCall(t) ==
    /\ tpc[t] = "idle"
    /\ done[t] < MaxThreadCalls
    /\ \E p \in KeysOf(t), f \in {"l258", "l264"} :
          /\ targ' = [targ EXCEPT ![t] = [patient_id |-> p, role |-> "user",
                                          content |-> <<t, done[t] + 1>>]]
          /\ users' = [users EXCEPT ![p] = @ \cup {t}]
          /\ Goto(t, f)
    /\ done' = [done EXCEPT ![t] = @ + 1]
    /\ UNCHANGED <<agent_conversations, appended, heap, refs, tref, ttmp,
                   dbVars, runVars, toolVars, auxVars>>

\* lines 258 and 264: if patient_id not in agent_conversations
CheckKey(t) ==
    /\ tpc[t] \in {"l258", "l264"}
    /\ Goto(t, IF targ[t].patient_id \notin DOMAIN refs
               THEN (IF tpc[t] = "l258" THEN "l259" ELSE "l265")
               ELSE (IF tpc[t] = "l258" THEN "idle" ELSE "l267"))
    /\ UNCHANGED <<agent_conversations, appended, heap, refs, targ, tref, ttmp, done,
                   users, dbVars, runVars, toolVars, auxVars>>

\* lines 259 and 265: agent_conversations[patient_id] = []
InitKey(t) ==
    /\ tpc[t] \in {"l259", "l265"}
    /\ \E b \in {Bind(heap, refs, targ[t].patient_id, <<>>)} : SetMemory(b.heap, b.refs)
    /\ Goto(t, IF tpc[t] = "l259" THEN "idle" ELSE "l267")
    /\ UNCHANGED <<appended, targ, tref, ttmp, done, users, dbVars, runVars, toolVars, auxVars>>

\* line 267, first half: agent_conversations[patient_id]
AddLookup(t) ==
    /\ tpc[t] = "l267"
    /\ tref' = [tref EXCEPT ![t] = refs[targ[t].patient_id]]
    /\ Goto(t, "l267append")
    /\ UNCHANGED <<agent_conversations, appended, heap, refs, targ, ttmp, done, users,
                   dbVars, runVars, toolVars, auxVars>>

\* line 267, second half: .append({"role": role, "content": content})
AddAppend(t) ==
    /\ tpc[t] = "l267append"
    /\ LET entry == [role |-> targ[t].role, content |-> targ[t].content]
       IN /\ SetMemory([heap EXCEPT ![tref[t]] = Append(@, entry)], refs)
          /\ appended' = [appended EXCEPT ![targ[t].patient_id] = Append(@, entry)]
    /\ Goto(t, "l273")
    /\ UNCHANGED <<targ, tref, ttmp, done, users, dbVars, runVars, toolVars, auxVars>>

\* line 273: if len(agent_conversations[patient_id]) > 10
AddLen(t) ==
    /\ tpc[t] = "l273"
    /\ Goto(t, IF Len(heap[refs[targ[t].patient_id]]) > HistoryCap
               THEN "l274" ELSE "idle")
    /\ UNCHANGED <<agent_conversations, appended, heap, refs, targ, tref, ttmp, done,
                   users, dbVars, runVars, toolVars, auxVars>>

\* line 274, right-hand side: agent_conversations[patient_id][-10:]
AddSlice(t) ==
    /\ tpc[t] = "l274"
    /\ ttmp' = [ttmp EXCEPT ![t] = LastN(heap[refs[targ[t].patient_id]], HistoryCap)]
    /\ Goto(t, "l274store")
    /\ UNCHANGED <<agent_conversations, appended, heap, refs, targ, tref, done, users,
                   dbVars, runVars, toolVars, auxVars>>

\* line 274, the assignment
AddStore(t) ==
    /\ tpc[t] = "l274store"
    /\ \E b \in {Bind(heap, refs, targ[t].patient_id, ttmp[t])} : SetMemory(b.heap, b.refs)
    /\ Goto(t, "idle")
    /\ UNCHANGED <<appended, targ, tref, ttmp, done, users, dbVars, runVars, toolVars, auxVars>>

ThrInit ==
    /\ heap = <<>>
    /\ refs = <<>>
    /\ tpc = [t \in Threads |-> "idle"]
    /\ targ = [t \in Threads |-> NoArgs]
    /\ tref = [t \in Threads |-> 0]
    /\ ttmp = [t \in Threads |-> <<>>]
    /\ done = [t \in Threads |-> 0]
    /\ users = [p \in PatientIds |-> {}]

\* a history that earlier calls have filled up to the cap
Prefilled == [i \in 1..HistoryCap |-> [role |-> "user", content |-> <<"t0", i>>]]

(***************************************************************************)
(* Speech to text: transcribe_audio_bytes and transcribe_audio,            *)
(* stt_service.py:28-164, and load_whisper_model and                       *)
(* transcribe_audio_from_bytes, local_whisper_service.py:18-191.  A call   *)
(* goes statement by statement; the file system and the engines answer as  *)
(* they may.  No other process touches the two directories.                *)
(***************************************************************************)
\* calls of transcribe_audio_bytes in one behaviour
MaxTranscriptions == 2

\* Python's None, among strings that are sequences of characters
None == <<"<None>">>

NoPath == <<"", 0>>

Whitespace == {" ", "\n", "\t"}

\* str.strip()
RECURSIVE Strip(_)
Strip(s) ==
    IF s = <<>> THEN s
    ELSE IF Head(s) \in Whitespace THEN Strip(Tail(s))
    ELSE IF s[Len(s)] \in Whitespace THEN Strip(SubSeq(s, 1, Len(s) - 1))
    ELSE s

\* the uploads: no bytes at all, or a recording
Audios == {<<>>, <<"R", "I", "F", "F">>}

\* what an engine makes of a recording: nothing, blanks, or words
EngineTexts == {<<>>, <<" ">>, <<" ", "\n">>, <<"h", "i">>, <<" ", "h", "i", "\n">>}

\* open(path, "wb") and the write: both work, open raises, or the write raises
\* after open has created the file
WriteOutcomes == {"ok", "raise_open", "raise_write"}

Put(files, path, bytes) ==
    [x \in (DOMAIN files) \cup {path} |-> IF x = path THEN bytes ELSE files[x]]

Remove(files, path) == [x \in (DOMAIN files) \ {path} |-> files[x]]

\* open and write, lines 125-128 and local_whisper_service.py:138-141
Written(files, path, bytes, written) ==
    CASE written = "ok" -> Put(files, path, bytes)
      [] written = "raise_write" -> Put(files, path, <<>>)
      [] OTHER -> files

\* "if temp_path and os.path.exists(temp_path): try: os.unlink(temp_path)
\* except: warning", lines 156-162 and local_whisper_service.py:185-191;
\* unlinked: os.unlink did not raise
Unlinked(files, path, unlinked) ==
    IF path \in DOMAIN files /\ unlinked THEN Remove(files, path) ELSE files

\* local_whisper_service.py:163-175: the stripped text, None when it is empty
LocalResult(answer) == IF Strip(answer) = <<>> THEN None ELSE Strip(answer)

\* lines 77-83: the text of the answer as it is
OnlineResult(answer) == answer

\* transcribe_audio_bytes up to the end of the with block, lines 115-128; an
\* exception goes to line 150 and on to the finally block
TranscribeAudioBytes ==
    /\ spc \in {"idle", "returned"}
    /\ transcriptions < MaxTranscriptions
    /\ \E bytes \in Audios, written \in WriteOutcomes :
          /\ audio_bytes' = bytes
          /\ temp_path' = <<"temp_audio", transcriptions + 1>>
          /\ temp_files' = Written(temp_files, temp_path', bytes, written)
          /\ spc' = IF written = "ok" THEN "l134" ELSE "l154"
    /\ whisper_path' = NoPath
    /\ transcription' = None
    /\ stt_text' = None
    /\ transcribed' = None
    /\ transcriptions' = transcriptions + 1
    /\ UNCHANGED <<USE_LOCAL_WHISPER, whisper_model, conVars, memVars, dbVars, runVars,
                   toolVars, thrVars>>

\* what a step of a transcription call leaves alone
SttRest == <<USE_LOCAL_WHISPER, audio_bytes, temp_path, transcribed, transcriptions,
             conVars, memVars, dbVars, runVars, toolVars, thrVars>>

\* lines 134-143: "return None" when the file is not there or is empty
VerifyTempFile ==
    /\ spc = "l134"
    /\ spc' = IF temp_path \notin DOMAIN temp_files \/ Len(temp_files[temp_path]) = 0
              THEN "l154" ELSE "l146"
    /\ UNCHANGED <<whisper_model, temp_files, whisper_path, transcription, stt_text, SttRest>>

\* line 146 with the OpenAI client: transcribe_audio, lines 66-90
TranscribeAudioOnline ==
    /\ spc = "l146" /\ ~USE_LOCAL_WHISPER
    /\ \E raises \in BOOLEAN, answer \in EngineTexts :
          /\ raises => answer = <<>>
          /\ transcription' = IF raises THEN None ELSE answer
          /\ stt_text' = IF raises THEN None ELSE OnlineResult(answer)
    /\ spc' = "l154"
    /\ UNCHANGED <<whisper_model, temp_files, whisper_path, SttRest>>

\* line 146 without the client: transcribe_audio, lines 46-56, reads the file
\* and calls transcribe_audio_from_bytes, which begins with load_whisper_model
\* (local_whisper_service.py:114-118 and 35-51)
LoadWhisperModel ==
    /\ spc = "l146" /\ USE_LOCAL_WHISPER
    /\ \E loads \in BOOLEAN :
          /\ (whisper_model = "loaded") => loads
          /\ whisper_model' = IF loads THEN "loaded" ELSE "none"
          /\ spc' = IF loads THEN "w129" ELSE "l154"
    /\ UNCHANGED <<temp_files, whisper_path, transcription, stt_text, SttRest>>

\* local_whisper_service.py:129-147
SaveWhisperFile ==
    /\ spc = "w129"
    /\ \E written \in WriteOutcomes :
          /\ whisper_path' = <<"temp_whisper", transcriptions>>
          /\ temp_files' = Written(temp_files, whisper_path', temp_files[temp_path], written)
          /\ spc' = IF written = "ok" THEN "w152" ELSE "w183"
    /\ UNCHANGED <<whisper_model, transcription, stt_text, SttRest>>

\* local_whisper_service.py:152-181; stt_text takes the value returned, which
\* line 146 assigns when the finally block is through
WhisperTranscribe ==
    /\ spc = "w152"
    /\ \E raises \in BOOLEAN, answer \in EngineTexts :
          /\ raises => answer = <<>>
          /\ transcription' = IF raises THEN None ELSE answer
          /\ stt_text' = IF raises THEN None ELSE LocalResult(answer)
    /\ spc' = "w183"
    /\ UNCHANGED <<whisper_model, temp_files, whisper_path, SttRest>>

\* local_whisper_service.py:183-191
WhisperCleanup ==
    /\ spc = "w183"
    /\ \E unlinked \in BOOLEAN :
          temp_files' = Unlinked(temp_files, whisper_path, unlinked)
    /\ spc' = "l154"
    /\ UNCHANGED <<whisper_model, whisper_path, transcription, stt_text, SttRest>>

\* the finally block and the return, lines 154-164
CleanupTempFile ==
    /\ spc = "l154"
    /\ \E unlinked \in BOOLEAN :
          temp_files' = Unlinked(temp_files, temp_path, unlinked)
    /\ transcribed' = stt_text
    /\ spc' = "returned"
    /\ UNCHANGED <<USE_LOCAL_WHISPER, whisper_model, audio_bytes, temp_path, whisper_path,
                   transcription, stt_text, transcriptions, conVars, memVars, dbVars,
                   runVars, toolVars, thrVars>>

\* local: there is no OPENAI_API_KEY, lines 17-25
SttInitWith(local) ==
    /\ USE_LOCAL_WHISPER = local
    /\ whisper_model = "none"
    /\ temp_files = <<>>
    /\ spc = "idle"
    /\ audio_bytes = <<>>
    /\ temp_path = NoPath
    /\ whisper_path = NoPath
    /\ transcription = None
    /\ stt_text = None
    /\ transcribed = None
    /\ transcriptions = 0

SttInit == SttInitWith(FALSE)

(***************************************************************************)
(* Tool invocations that run at the same time, as ToolNode's thread pool   *)
(* and concurrent runs make them: agent_tools.py:44-60 and 154-184, store  *)
(* call by store call.                                                     *)
(***************************************************************************)
Workers == {"w1", "w2"}

ConInit ==
    /\ wpc = [w \in Workers |-> "idle"]
    /\ wcall = [w \in Workers |-> NoCall]
    /\ wdata = [w \in Workers |-> <<>>]
    /\ wtext = [w \in Workers |-> <<>>]

\* the invocations that run side by side, all for one pair
ConCalls ==
    {[name |-> "delete_reminder", outcome |-> "ok",
      args |-> [pair_id |-> "pairA", reminder_title |-> f]] :
         f \in {TitleFragment, WalkFragment}}
    \cup {[name |-> "create_reminder", outcome |-> "ok",
           args |-> [pair_id |-> "pairA", title |-> t, date |-> GoodDate,
                     time |-> GoodTime]] : t \in {PillsTitle, BoxTitle}}

\* the reminders there are when the invocations begin, made by earlier calls
ConStores ==
    {<<>>,
     <<[id |-> 1, pair_id |-> "pairA", title |-> PillsTitle, date |-> GoodDate,
        time |-> GoodTime]>>,
     <<[id |-> 1, pair_id |-> "pairA", title |-> PillsTitle, date |-> GoodDate,
        time |-> GoodTime],
       [id |-> 2, pair_id |-> "pairA", title |-> WalkTitle, date |-> GoodDate,
        time |-> EarlyTime]>>}

\* what a step of a worker leaves alone
ConRest == <<emergency_alerts, now, memVars, runVars, toolVars, thrVars, sttVars>>

\* the tool function is entered; create_reminder has parsed its date and time
\* (lines 38-42) when it comes to the store
ConStart(w) ==
    /\ wpc[w] = "idle"
    /\ \E call \in ConCalls :
          /\ wcall' = [wcall EXCEPT ![w] = call]
          /\ wpc' = [wpc EXCEPT ![w] = IF call.name = "delete_reminder"
                                        THEN "l157" ELSE "l47"]
    /\ UNCHANGED <<reminders, next_id, wdata, wtext, ConRest>>

\* create_reminder's insert and return, lines 47-60
ConInsert(w) ==
    /\ wpc[w] = "l47"
    /\ \E r \in {create_reminder(CurrentDb, wcall[w].args.pair_id, wcall[w].args.title,
                                 wcall[w].args.date, wcall[w].args.time, "ok")} :
          /\ reminders' = r.db.reminders
          /\ next_id' = r.db.next_id
          /\ wtext' = [wtext EXCEPT ![w] = r.text]
    /\ wpc' = [wpc EXCEPT ![w] = "done"]
    /\ UNCHANGED <<wcall, wdata, ConRest>>

\* delete_reminder's select, lines 157-160, and what it does with result.data
\* before it comes to the store again, lines 162-179: it returns, or it has
\* one match and goes on to delete it
ConSelect(w) ==
    /\ wpc[w] = "l157"
    /\ \E data \in {RowsOfPair(reminders, wcall[w].args.pair_id)} :
          /\ wdata' = [wdata EXCEPT ![w] = data]
          /\ IF Len(Matching(data, wcall[w].args.reminder_title)) = 1
             THEN /\ wpc' = [wpc EXCEPT ![w] = "l180"]
                  /\ wtext' = wtext
             ELSE /\ wpc' = [wpc EXCEPT ![w] = "done"]
                  /\ wtext' = [wtext EXCEPT ![w] =
                                 DeleteFrom(CurrentDb, data,
                                            Matching(data, wcall[w].args.reminder_title),
                                            wcall[w].args.reminder_title, "ok").text]
    /\ UNCHANGED <<reminders, next_id, wcall, ConRest>>

\* delete_reminder's delete by id and return, lines 179-184; the store deletes
\* the row with that id if it still has it
ConDelete(w) ==
    /\ wpc[w] = "l180"
    /\ \E r \in {DeleteFrom(CurrentDb, wdata[w],
                            Matching(wdata[w], wcall[w].args.reminder_title),
                            wcall[w].args.reminder_title, "ok")} :
          /\ reminders' = r.db.reminders
          /\ wtext' = [wtext EXCEPT ![w] = r.text]
    /\ wpc' = [wpc EXCEPT ![w] = "done"]
    /\ UNCHANGED <<next_id, wcall, wdata, ConRest>>

MemInit ==
    /\ agent_conversations = <<>>
    /\ appended = [p \in PatientIds |-> <<>>]
    /\ DbInit
    /\ RunInit
    /\ ToolInit
    /\ ThrInit
    /\ SttInit
    /\ ConInit

MemNext == GetHistory \/ AddToHistory

Init == MemInit

Next == RunAgent \/ CallAgent \/ ToolNode \/ Finish

\* one run of run_agent; the provider asks for tools in at most MaxToolRounds turns
Spec == Init /\ [][Next]_vars

DeepNext == RunAgent \/ CallAgentDeep \/ ToolNode \/ Finish

\* one run of run_agent with a provider that may ask for tools in every turn,
\* and only for tools that leave the store as it is
DeepSpec == Init /\ [][DeepNext]_vars

FailNext == RunAgent \/ CallAgentSingle \/ ToolNodeAnyOutcome \/ Finish

\* one run of run_agent with one request per turn, the store failing a tool
\* in every way it can
FailSpec == Init /\ [][FailNext]_vars

MemSpec == MemInit /\ [][MemNext]_vars

ToolNext ==
    \/ CreateReminder
    \/ ListReminders
    \/ DeleteReminder
    \/ SendEmergencyAlert
    \/ OtherClientInsert
    \/ Tick

\* the four tools called in any order, one call at a time
ToolSpec == Init /\ [][ToolNext]_vars

\* the module is imported with or without an OPENAI_API_KEY
SttStart ==
    /\ \E local \in BOOLEAN : SttInitWith(local)
    /\ agent_conversations = <<>>
    /\ appended = [p \in PatientIds |-> <<>>]
    /\ DbInit
    /\ RunInit
    /\ ToolInit
    /\ ThrInit
    /\ ConInit

ConBegin ==
    /\ \E rows \in ConStores :
          /\ reminders = rows
          /\ next_id = Len(rows) + 1
    /\ emergency_alerts = <<>>
    /\ now = StartTime
    /\ agent_conversations = <<>>
    /\ appended = [p \in PatientIds |-> <<>>]
    /\ RunInit
    /\ ToolInit
    /\ ThrInit
    /\ SttInit
    /\ ConInit

ConNext ==
    \E w \in Workers :
        \/ ConStart(w)
        \/ ConInsert(w)
        \/ ConSelect(w)
        \/ ConDelete(w)

\* two tool invocations for one pair, interleaved store call by store call
ConSpec == ConBegin /\ [][ConNext]_vars

SttNext ==
    \/ TranscribeAudioBytes
    \/ VerifyTempFile
    \/ TranscribeAudioOnline
    \/ LoadWhisperModel
    \/ SaveWhisperFile
    \/ WhisperTranscribe
    \/ WhisperCleanup
    \/ CleanupTempFile

\* calls of transcribe_audio_bytes, one after the other
SttSpec == SttStart /\ [][SttNext]_vars

\* the threads start with no history at all, or with a full one for MainPatient
ThreadInit ==
    /\ \E full \in BOOLEAN :
          /\ heap = IF full THEN <<Prefilled>> ELSE <<>>
          /\ refs = IF full THEN [p \in {MainPatient} |-> 1] ELSE <<>>
          /\ appended = [p \in PatientIds |->
                            IF full /\ p = MainPatient THEN Prefilled ELSE <<>>]
    /\ agent_conversations = Conversations(heap, refs)
    /\ tpc = [t \in Threads |-> "idle"]
    /\ targ = [t \in Threads |-> NoArgs]
    /\ tref = [t \in Threads |-> 0]
    /\ ttmp = [t \in Threads |-> <<>>]
    /\ done = [t \in Threads |-> 0]
    /\ users = [p \in PatientIds |-> {}]
    /\ DbInit
    /\ RunInit
    /\ ToolInit
    /\ SttInit
    /\ ConInit

ThreadNext ==
    \E t \in Threads :
        \/ StartCall(t)
        \/ CheckKey(t)
        \/ InitKey(t)
        \/ AddLookup(t)
        \/ AddAppend(t)
        \/ AddLen(t)
        \/ AddSlice(t)
        \/ AddStore(t)

\* two threads calling the memory functions, interleaved statement by statement
ThreadSpec == ThreadInit /\ [][ThreadNext]_vars

(***************************************************************************)
(* Properties of the agent loop.                                           *)
(***************************************************************************)
LastMessage == messages[Len(messages)]

\* the positions in msgs of the tool results tagged with a request's id
ToolMessagesFor(msgs, id) ==
    {k \in 1..Len(msgs) : msgs[k].type = "tool" /\ msgs[k].tool_call_id = id}

Store == <<reminders, next_id, emergency_alerts>>

\* C1: when the provider answers the first turn of a run with exactly one
\* request for one of the four tools and the second turn with a reply that has
\* text and no requests, the loop goes to the tools, the tool is executed
\* exactly once, its text result, tagged with the request's id, is in the
\* messages given to the model in the second turn, and run_agent returns
\* exactly the text of the reply.
C1_RoundTrip ==
    [][/\ (/\ pc = "AgentTurn" /\ model_turns = 0
           /\ ~model_failed' /\ Len(LastMessage'.tool_calls) = 1)
          => pc' = "ToolTurn"
       /\ (/\ pc = "ToolTurn" /\ tool_turns = 0
           /\ Len(LastMessage.tool_calls) = 1
           /\ LastMessage.tool_calls[1].name \in ToolNames)
          => LET call == LastMessage.tool_calls[1]
                 input == ModelInput(messages')
             IN /\ pc' = "AgentTurn"
                /\ turn_execs' = 1
                /\ Len(reminders') <= Len(reminders) + 1
                /\ Len(emergency_alerts') <= Len(emergency_alerts) + 1
                /\ \E k \in ToolMessagesFor(input, call.id) :
                      input[k].content \in
                         {Dispatch(CurrentDb, call, o, now).text : o \in StoreOutcomes}
       /\ (/\ pc = "AgentTurn" /\ model_turns = 1 /\ tool_turns = 1
           /\ ~model_failed' /\ LastMessage'.tool_calls = <<>>)
          => pc' = "Done"
       /\ (/\ pc = "Done" /\ model_turns = 2 /\ tool_turns = 1
           /\ ~model_failed /\ LastMessage.content # <<>>)
          => (pc' = "Returned" /\ result' = LastMessage.content)
      ]_vars

\* C1: the one requested tool has run once and its result is the input of the
\* second model turn
C1_Witness ==
    /\ pc = "AgentTurn" /\ model_turns = 1 /\ tool_turns = 1
    /\ Len(messages) = 1 /\ messages[1].type = "tool"
    /\ turn_execs = 1
    /\ Len(reminders) = 1

C3_ReturnsLastContent ==
    [][pc = "Done"
          => /\ LastMessage.type = "ai"
             /\ result' = LastMessage.content
      ]_vars

\* C3, amended: when a run ends in Done, run_agent returns the text content of
\* the last model message if that text is not empty, and the fixed fallback
\* sentence if it is empty.
C3_ReturnsLastContentOrFallback ==
    [][pc = "Done"
          => /\ LastMessage.type = "ai"
             /\ result' = IF LastMessage.content # <<>> THEN LastMessage.content
                          ELSE FallbackText
      ]_vars

\* C3: a run after a tool round whose last model message had no text
C3_Witness ==
    /\ pc = "Returned" /\ ~model_failed /\ tool_turns > 0
    /\ messages # <<>> /\ LastMessage.content = <<>>
    /\ result = FallbackText

\* C4 as stated: within a run the message sequence only grows; no step of the
\* loop removes, reorders or replaces a message already in it.
C4_AppendOnly ==
    [][(pc = "AgentTurn" \/ pc = "ToolTurn") => IsPrefix(messages, messages')]_vars

\* C5: a tool turn ends with exactly one tool result for each request of the
\* message that led to it, tagged with that request's id, and all of them are
\* in the message sequence when the next model turn begins.
C5_OneResultPerRequest ==
    [][pc = "ToolTurn"
          => LET calls == LastMessage.tool_calls
             IN /\ pc' = "AgentTurn"
                /\ \A i \in 1..Len(calls) :
                      Cardinality(ToolMessagesFor(messages', calls[i].id)) = 1
                /\ Cardinality({k \in 1..Len(messages') :
                                   /\ messages'[k].type = "tool"
                                   /\ \E i \in 1..Len(calls) :
                                         messages'[k].tool_call_id = calls[i].id})
                      = Len(calls)
      ]_vars

\* C5: a model turn that begins after a batch of two requests was answered
C5_Witness ==
    /\ pc = "AgentTurn" /\ tool_turns = 1
    /\ Len(messages) = 2
    /\ messages[1].type = "tool" /\ messages[2].type = "tool"
    /\ messages[1].tool_call_id # messages[2].tool_call_id

\* C6: when the model call fails in a turn, whichever turn it is, the loop
\* goes to Done, nothing more is called or executed, and run_agent returns one
\* fixed sentence, not the error's text.
C6_ModelFailure ==
    [][/\ model_failed' => pc' \in {"Done", "Returned"}
       /\ model_failed
          => /\ pc = "Done" /\ pc' = "Returned"
             /\ result' = AgentErrorText
             /\ model_turns' = model_turns /\ tool_turns' = tool_turns
             /\ Store' = Store
      ]_vars

\* C6: a run returned after the model call failed in a turn after two tool rounds
C6_Witness ==
    /\ pc = "Returned" /\ model_failed /\ tool_turns = 2
    /\ result = AgentErrorText

\* C7: a request that names none of the four tools does not end the run: no
\* tool function is called for it, a run whose requests are all of this kind
\* leaves the store as it was, the request gets a tool result tagged with its
\* id that says the tool is not valid, and the loop returns to the model.
C7_UnknownTool ==
    [][pc = "ToolTurn"
          => LET calls == LastMessage.tool_calls
                 unknown == {i \in 1..Len(calls) : calls[i].name \notin ToolNames}
             IN /\ pc' = "AgentTurn"
                /\ \A i \in unknown :
                      \E k \in ToolMessagesFor(messages', calls[i].id) :
                         messages'[k].content = InvalidToolText(calls[i].name)
                /\ turn_execs' = Len(calls) - Cardinality(unknown)
                /\ (Cardinality(unknown) = Len(calls)) => Store' = Store
      ]_vars

\* C7: the model turn that begins after a request for an unknown tool
C7_Witness ==
    /\ pc = "AgentTurn" /\ tool_turns = 1 /\ turn_execs = 0
    /\ \E k \in 1..Len(messages) :
          /\ messages[k].type = "tool"
          /\ messages[k].content = InvalidToolText(UnknownToolName)
    /\ reminders = <<>> /\ emergency_alerts = <<>>

C9_AlwaysReturnsText ==
    /\ pc \in {"Idle", "AgentTurn", "ToolTurn", "Done", "Returned"}
    /\ pc = "Returned" => (result # <<>> /\ \A i \in 1..Len(result) : result[i] # "")

\* C9: a call that failed before the loop started and still returned a text
C9_Witness ==
    /\ pc = "Returned" /\ messages = <<>> /\ model_turns = 0
    /\ result = RunErrorText

(***************************************************************************)
(* Properties of the conversation memory.                                  *)
(***************************************************************************)
\* C10: a patient's stored history never has more than HistoryCap entries; after
\* n appends it holds exactly the last min(n, HistoryCap) of them, oldest
\* first; after HistoryCap + 1 appends the first is gone and the last is there.
C10_HistoryCapped ==
    \A p \in PatientIds :
        LET h == IF p \in DOMAIN agent_conversations
                 THEN agent_conversations[p] ELSE <<>>
            n == Len(appended[p])
        IN /\ Len(h) <= HistoryCap
           /\ Len(h) = IF n <= HistoryCap THEN n ELSE HistoryCap
           /\ \A i \in 1..Len(h) : h[i] = appended[p][n - Len(h) + i]
           /\ n = HistoryCap + 1
                 => /\ \A i \in 1..Len(h) : h[i] # appended[p][1]
                    /\ h[Len(h)] = appended[p][n]

\* C10: a patient with one append more than the cap
C10_Witness ==
    \E p \in DOMAIN agent_conversations :
        /\ Len(appended[p]) = HistoryCap + 1
        /\ Len(agent_conversations[p]) = HistoryCap

\* the history that the appends of log alone give, made one call after the other
RECURSIVE RunAlone(_)
RunAlone(log) ==
    IF log = <<>> THEN <<>>
    ELSE Trim(Append(RunAlone(SubSeq(log, 1, Len(log) - 1)), log[Len(log)]))

\* no thread is inside a call for key p
Quiescent(p) == \A t \in Threads : tpc[t] = "idle" \/ targ[t].patient_id # p

\* C11: calls for distinct keys do not interfere, however their statements
\* interleave: when one thread at most has called with key p and is not inside
\* a call for it, the history of p is what p's appends alone give in their
\* order, whatever another thread has done or is doing with another key.
C11_DistinctKeysIndependent ==
    \A p \in PatientIds :
        (Cardinality(users[p]) <= 1 /\ Quiescent(p))
           => /\ (p \in DOMAIN agent_conversations) <=> (users[p] # {} \/ appended[p] # <<>>)
              /\ (p \in DOMAIN agent_conversations)
                    => agent_conversations[p] = RunAlone(appended[p])

\* C11: the history of one key is read while the other thread is in the middle
\* of trimming the history of another key
C11_Witness ==
    /\ tpc["t1"] = "l274store" /\ targ["t1"].patient_id = "p1"
    /\ users["p1"] = {"t1"} /\ users["p2"] = {"t2"}
    /\ tpc["t2"] = "idle" /\ Len(appended["p2"]) = 2

(***************************************************************************)
(* Properties of the tools.                                                *)
(***************************************************************************)
\* the openings of the strings with which the tools report an error
ErrorOpenings ==
    {InvalidFormatText[1],
     "Error: Failed to create reminder - ",
     "Error: Failed to create reminder in database",
     "Error: Failed to fetch reminders - ",
     "Error: Failed to delete reminder - "}

ErrorPrefixed(text) == text # <<>> /\ Head(text) \in ErrorOpenings

\* a date alone in the format 'dd Mon yyyy' ("%d %b %Y")
DateParses(date) ==
    /\ date # <<>> /\ Head(date) # " " /\ date[Len(date)] # " "
    /\ LET ws == Words(date)
       IN /\ Len(ws) = 3
          /\ DayOf(ws[1]) # 0 /\ MonthOf(ws[2]) # 0 /\ YearOf(ws[3]) # 0
          /\ DayOf(ws[1]) <= DaysInMonth(YearOf(ws[3]), MonthOf(ws[2]))

\* a time alone in the format 'hh:mm AM/PM' ("%I:%M %p")
TimeParses(time) ==
    /\ time # <<>> /\ Head(time) # " " /\ time[Len(time)] # " "
    /\ LET ws == Words(time)
       IN /\ Len(ws) = 2
          /\ ClockOf(ws[1]) # <<>>
          /\ Lower(ws[2]) \in {<<"a", "m">>, <<"p", "m">>}

\* C12 as stated: when the date does not parse as 'dd Mon yyyy' or the time
\* does not parse as 'hh:mm AM/PM', create_reminder returns a string that
\* begins with "Error" and leaves the reminders as they were.
C12_MalformedRejected ==
    [][(/\ invoked'.name = "create_reminder"
        /\ ~DateParses(invoked'.args.date) \/ ~TimeParses(invoked'.args.time))
          => (ErrorPrefixed(returned') /\ reminders' = reminders)
      ]_vars

\* text.split(sep)
RECURSIVE Split(_, _)
Split(text, sep) ==
    IF \A i \in 1..Len(text) : text[i] # sep THEN <<text>>
    ELSE LET i == CHOOSE j \in 1..Len(text) :
                     text[j] = sep /\ \A k \in 1..(j - 1) : text[k] # sep
         IN <<SubSeq(text, 1, i - 1)>> \o Split(SubSeq(text, i + 1, Len(text)), sep)

\* the numbered lines of a list_reminders result, below its heading
ListedLines(text) ==
    IF Len(text) > 3 /\ text[1] = "You have "
    THEN Split(SubSeq(text, 4, Len(text)), "\n")
    ELSE <<>>

\* a line without its number
LineBody(line) == SubSeq(line, 3, Len(line))

\* how many times needle occurs in hay
Occurrences(hay, needle) ==
    Cardinality({i \in 0..(Len(hay) - Len(needle)) :
                    SubSeq(hay, i + 1, i + Len(needle)) = needle})

\* r has a line of its own form in the listed lines
HasLine(lines, r) == \E n \in 1..Len(lines) : lines[n] = ReminderLine(n, r)

\* the step is a successful create_reminder with a valid date and time that
\* are not before the current time
ValidCreate ==
    /\ invoked'.name = "create_reminder"
    /\ returned' = CreatedText(invoked'.args.title, invoked'.args.date,
                               invoked'.args.time)
    /\ DateParses(invoked'.args.date) /\ TimeParses(invoked'.args.time)
    /\ TupleLeq(now', strptime(DateTimeText(invoked'.args.date, invoked'.args.time)))

\* the record such a step is to add
NewRecord ==
    [id |-> next_id, pair_id |-> invoked'.args.pair_id, title |-> invoked'.args.title,
     date |-> invoked'.args.date, time |-> invoked'.args.time]

\* what list_reminders(pair) returns when it follows the step
FollowingList ==
    list_reminders([reminders |-> reminders', next_id |-> next_id',
                    emergency_alerts |-> emergency_alerts'],
                   invoked'.args.pair_id, "ok", now').text

\* C13 as stated: a successful create_reminder with a valid date and time not
\* before now adds exactly one record, and the list_reminders that follows
\* contains the title exactly once, in a line "{n}. {title} - {date} at {time}".
C13_TitleExactlyOnce ==
    [][ValidCreate =>
          /\ reminders' = Append(reminders, NewRecord)
          /\ \E text \in {FollowingList} :
                /\ Occurrences(text, NewRecord.title) = 1
                /\ HasLine(ListedLines(text), NewRecord)
      ]_vars

\* C13, amended: such a create_reminder adds exactly one record, and the
\* list_reminders that follows has a line "{n}. {title} - {date} at {time}"
\* for it: as many lines of that title, date and time as the pair has
\* reminders with them, so the title is there once for each upcoming reminder
\* of the pair that bears it.  Every list_reminders that the store answers
\* has such a line for each reminder of the pair whose date and time are
\* valid and not before now.
C13_OneLinePerRecord ==
    [][/\ ValidCreate =>
             /\ reminders' = Append(reminders, NewRecord)
             /\ \E lines \in {ListedLines(FollowingList)} :
                   /\ HasLine(lines, NewRecord)
                   /\ Cardinality({n \in 1..Len(lines) :
                         LineBody(lines[n]) = LineBody(ReminderLine(n, NewRecord))})
                        = Len(SelectSeq(RowsOfPair(reminders', NewRecord.pair_id),
                                 LAMBDA r : /\ r.title = NewRecord.title
                                            /\ r.date = NewRecord.date
                                            /\ r.time = NewRecord.time))
       /\ (invoked'.name = "list_reminders" /\ invoked'.outcome = "ok") =>
             /\ reminders' = reminders
             /\ \A i \in 1..Len(reminders) :
                   (/\ reminders[i].pair_id = invoked'.args.pair_id
                    /\ DateParses(reminders[i].date) /\ TimeParses(reminders[i].time)
                    /\ IsUpcoming(reminders[i], now))
                      => \E lines \in {ListedLines(returned')} : HasLine(lines, reminders[i])
      ]_vars

\* two reminders of one title, both listed
C13_Witness ==
    /\ invoked.name = "list_reminders" /\ invoked.outcome = "ok"
    /\ invoked.args.pair_id = "pairA"
    /\ Len(reminders) = 2
    /\ \A i \in 1..2 : /\ reminders[i].pair_id = "pairA"
                       /\ reminders[i].title = PillsTitle
                       /\ reminders[i].date = GoodDate /\ reminders[i].time = GoodTime
    /\ Len(ListedLines(returned)) = 2
    /\ Occurrences(returned, PillsTitle) = 2

\* the ways to list the members of S, each once
Listings(S) ==
    {f \in [1..Cardinality(S) -> S] :
        \A a, b \in 1..Cardinality(S) : a # b => f[a] # f[b]}

\* the date-time of a stored reminder, as datetime.strptime reads it
ParsedDateTime(r) == strptime(DateTimeText(r.date, r.time))

\* the reminders of the pair whose date-time parses and is not before t
UpcomingOf(pair_id, t) ==
    {i \in 1..Len(reminders) :
        /\ reminders[i].pair_id = pair_id
        /\ ParsedDateTime(reminders[i]) # ValueError
        /\ TupleLeq(t, ParsedDateTime(reminders[i]))}

MatchesOf(pair_id, fragment) ==
    {i \in 1..Len(reminders) :
        /\ reminders[i].pair_id = pair_id
        /\ Contains(Lower(reminders[i].title), Lower(fragment))}

\* the step is delete_reminder(pair, fragment), answered by the store
DeleteAnswered == invoked'.name = "delete_reminder" /\ invoked'.outcome = "ok"

\* C15: when exactly one reminder of the pair has a title containing the
\* fragment, a delete_reminder(pair, fragment) that the store answers removes
\* that reminder and no other record, and the list_reminders(pair) that
\* follows has no line of it.
C15_DeletesTheOneMatch ==
    [][(/\ DeleteAnswered
        /\ Cardinality(MatchesOf(invoked'.args.pair_id, invoked'.args.reminder_title)) = 1)
          => \E i \in MatchesOf(invoked'.args.pair_id, invoked'.args.reminder_title) :
                /\ reminders' = SubSeq(reminders, 1, i - 1)
                                   \o SubSeq(reminders, i + 1, Len(reminders))
                /\ emergency_alerts' = emergency_alerts
                /\ returned' = DeletedText(reminders[i])
                /\ \E lines \in {ListedLines(FollowingList)} :
                      \A n \in 1..Len(lines) :
                         LineBody(lines[n]) # LineBody(ReminderLine(n, reminders[i]))
      ]_vars

\* "WALK" has deleted the reminder "Walk" and left the other reminder
C15_Witness ==
    /\ invoked.name = "delete_reminder" /\ invoked.outcome = "ok"
    /\ invoked.args.reminder_title = WalkFragment
    /\ returned # <<>> /\ returned[1] = "I've deleted the reminder '"
    /\ next_id = 3
    /\ Len(reminders) = 1 /\ reminders[1].title = PillsTitle
    /\ reminders[1].pair_id = invoked.args.pair_id

\* the titles that the message about several matches lists
ListedTitles(text) ==
    IF Len(text) > 2 /\ text[1] = "Found multiple reminders matching '"
    THEN LET k == CHOOSE j \in 1..Len(text) : text[j] = "': "
         IN Split(SubSeq(text, k + 1, Len(text) - 1), ", ")
    ELSE <<>>

\* C16: when two or more reminders of the pair match the fragment,
\* delete_reminder leaves the store as it was, and the message it returns
\* when the store answers lists the title of every matching reminder.
C16_AmbiguousNotDeleted ==
    [][(/\ invoked'.name = "delete_reminder"
        /\ Cardinality(MatchesOf(invoked'.args.pair_id, invoked'.args.reminder_title)) >= 2)
          => /\ reminders' = reminders /\ emergency_alerts' = emergency_alerts
             /\ DeleteAnswered =>
                   \E m \in {MatchesOf(invoked'.args.pair_id,
                                       invoked'.args.reminder_title)},
                      titles \in {ListedTitles(returned')} :
                      /\ Len(titles) = Cardinality(m)
                      /\ \E f \in Listings(m) :
                            \A n \in 1..Len(titles) : titles[n] = reminders[f[n]].title
      ]_vars

\* "pill" matches "Pills" and "pill box": both are kept and both are named
C16_Witness ==
    /\ invoked.name = "delete_reminder" /\ invoked.outcome = "ok"
    /\ invoked.args.reminder_title = TitleFragment
    /\ Len(reminders) = 2
    /\ reminders[1].title = PillsTitle /\ reminders[2].title = BoxTitle
    /\ reminders[1].pair_id = invoked.args.pair_id
    /\ reminders[2].pair_id = invoked.args.pair_id
    /\ ListedTitles(returned) = <<PillsTitle, BoxTitle>>

\* the step is a delete_reminder whose fragment no reminder of the pair matches
NoMatch ==
    /\ invoked'.name = "delete_reminder"
    /\ MatchesOf(invoked'.args.pair_id, invoked'.args.reminder_title) = {}

\* C17 as stated: when no reminder of the pair matches the fragment, the pair
\* having reminders or none, delete_reminder leaves the store as it was and
\* the message it returns when the store answers names the fragment.
C17_NoMatchNamesFragment ==
    [][NoMatch =>
          /\ reminders' = reminders /\ emergency_alerts' = emergency_alerts
          /\ DeleteAnswered =>
                /\ ~ErrorPrefixed(returned')
                /\ Contains(returned', invoked'.args.reminder_title)
      ]_vars

\* C17, amended: when no reminder of the pair matches the fragment,
\* delete_reminder leaves the store as it was.  When the store answers, the
\* message names the fragment if the pair has reminders, and is "You don't
\* have any reminders to delete.", without the fragment, if the pair has none.
C17_NoMatchUnchanged ==
    [][NoMatch =>
          /\ reminders' = reminders /\ emergency_alerts' = emergency_alerts
          /\ DeleteAnswered =>
                IF RowsOfPair(reminders, invoked'.args.pair_id) = <<>>
                THEN returned' = <<"You don't have any reminders to delete.">>
                ELSE /\ returned'[1] = "I couldn't find a reminder matching '"
                     /\ Contains(returned', invoked'.args.reminder_title)
      ]_vars

\* the pair has no reminder, another pair has one that the fragment matches
C17_Witness ==
    /\ invoked.name = "delete_reminder" /\ invoked.outcome = "ok"
    /\ invoked.args.pair_id = "pairB"
    /\ invoked.args.reminder_title = TitleFragment
    /\ Len(reminders) = 1
    /\ reminders[1].pair_id = "pairA" /\ reminders[1].title = PillsTitle
    /\ returned = <<"You don't have any reminders to delete.">>

\* the strings that reassure the patient
ReassuringTexts ==
    {<<"I've notified your caregiver about this situation. Help is on the way. Please stay calm.">>,
     <<"I'm here with you. Let me help you feel safe.">>}

\* C18: send_emergency_alert returns one of the reassuring strings, none of
\* them empty or an error report, whether the insert succeeds, the insert
\* raises, or the store client cannot be had.
C18_AlwaysReassures ==
    [][invoked'.name = "send_emergency_alert" =>
          /\ invoked'.outcome \in {"ok", "raise", "noclient"}
          /\ returned' \in ReassuringTexts
          /\ returned' # <<>> /\ returned'[1] # ""
          /\ ~ErrorPrefixed(returned')
          /\ (invoked'.outcome # "noclient") =>
                returned'[1] = "I've notified your caregiver about this situation. Help is on the way. Please stay calm."
      ]_vars

\* the insert raised, nothing is stored, and the patient is reassured
C18_Witness ==
    /\ invoked.name = "send_emergency_alert" /\ invoked.outcome = "raise"
    /\ emergency_alerts = <<>>
    /\ returned \in ReassuringTexts

\* C19: whatever the store does during a tool invocation (it answers, returns
\* no data, or raises when the client is asked for, at the select, at the
\* insert or at the delete), the tool returns a text: the ToolTurn ends with
\* one tool message of non-empty content for each request, no exception is
\* reported as the result of the run, and the loop is back at AgentTurn.
C19_ToolTurnCompletes ==
    [][pc = "ToolTurn" =>
          LET calls == messages[Len(messages)].tool_calls
          IN /\ pc' = "AgentTurn"
             /\ tool_turns' = tool_turns + 1
             /\ result' = <<>>
             /\ Len(messages') = Len(calls)
             /\ \A i \in 1..Len(calls) :
                   /\ messages'[i].type = "tool"
                   /\ messages'[i].tool_call_id = calls[i].id
                   /\ messages'[i].content # <<>>
                   /\ messages'[i].content[1] # ""
      ]_vars

\* the insert returned no data: create_reminder said so in a text, and the
\* loop is at AgentTurn again
C19_Witness ==
    /\ pc = "AgentTurn" /\ tool_turns = 1
    /\ Len(messages) = 1 /\ messages[1].type = "tool"
    /\ messages[1].content = <<"Error: Failed to create reminder in database">>
    /\ reminders = <<>>

\* C20: a step changes emergency_alerts only if it is a send_emergency_alert,
\* and then by appending one record, of status "pending" and alert type
\* "emergency", with the pair id and the reason of the invocation; the
\* records already there stay as they are, and every record in the table is
\* "pending" and "emergency".
C20_AlertsOnlyGrow ==
    [][/\ \/ emergency_alerts' = emergency_alerts
          \/ /\ invoked'.name = "send_emergency_alert"
             /\ Len(emergency_alerts') = Len(emergency_alerts) + 1
             /\ SubSeq(emergency_alerts', 1, Len(emergency_alerts)) = emergency_alerts
             /\ LET alert == emergency_alerts'[Len(emergency_alerts')]
                IN /\ alert.pair_id = invoked'.args.pair_id
                   /\ alert.reason = invoked'.args.reason
                   /\ alert.timestamp = now
       /\ \A i \in 1..Len(emergency_alerts') :
             /\ emergency_alerts'[i].status = "pending"
             /\ emergency_alerts'[i].alert_type = "emergency"
      ]_vars

\* two alerts, of two pairs, in the order they were sent
C20_Witness ==
    /\ invoked.name = "send_emergency_alert" /\ invoked.outcome = "ok"
    /\ invoked.args.pair_id = "pairB"
    /\ Len(emergency_alerts) = 2
    /\ emergency_alerts[1].pair_id = "pairA" /\ emergency_alerts[2].pair_id = "pairB"
    /\ emergency_alerts[2].reason = FellReason
    /\ emergency_alerts[2].status = "pending"

\* C23: a list_reminders leaves the store as it is, whatever the store
\* answers: every reminder stored before the call is stored after it, the
\* expired ones and those whose date or time does not parse as well.
C23_ListReadsOnly ==
    [][invoked'.name = "list_reminders" =>
          /\ reminders' = reminders
          /\ next_id' = next_id
          /\ emergency_alerts' = emergency_alerts
      ]_vars

\* an expired reminder and one that does not parse: neither is listed, both
\* are still stored
C23_Witness ==
    /\ invoked.name = "list_reminders" /\ invoked.outcome = "ok"
    /\ invoked.args.pair_id = "pairA"
    /\ returned = <<"All your reminders have passed. You don't have any upcoming reminders.">>
    /\ Len(reminders) = 2
    /\ \E i, j \in 1..2 :
          /\ reminders[i].pair_id = "pairA" /\ reminders[i].date = PastDate
          /\ reminders[j].pair_id = "pairA" /\ reminders[j].date = OddDate

\* the reminders that pair q owns, in the table's order
OwnedBy(rows, q) == SelectSeq(rows, LAMBDA r : r.pair_id = q)

\* C24: a create_reminder, list_reminders or delete_reminder called with pair
\* p leaves the reminders of every other pair as they are.  What it adds is
\* owned by p; the lines that list_reminders(p) shows are lines of reminders
\* of p, no more of them than p has; the titles that delete_reminder(p, ...)
\* names as matches are titles of reminders of p, and what it deletes was
\* owned by p.
C24_ScopedToPair ==
    [][invoked'.name \in {"create_reminder", "list_reminders", "delete_reminder"} =>
          \E p \in {invoked'.args.pair_id} :
             /\ \A q \in PairIds \ {p} : OwnedBy(reminders', q) = OwnedBy(reminders, q)
             /\ \A i \in 1..Len(reminders') :
                   reminders'[i].id >= next_id => reminders'[i].pair_id = p
             /\ \E lines \in {ListedLines(returned')}, mine \in {OwnedBy(reminders, p)} :
                   /\ Len(lines) <= Len(mine)
                   /\ \A n \in 1..Len(lines) :
                         \E i \in 1..Len(mine) : lines[n] = ReminderLine(n, mine[i])
             /\ \E titles \in {ListedTitles(returned')}, mine \in {OwnedBy(reminders, p)} :
                   /\ Len(titles) <= Len(mine)
                   /\ \A n \in 1..Len(titles) :
                         \E i \in 1..Len(mine) : titles[n] = mine[i].title
      ]_vars

\* the two pairs each had a reminder "Pills"; pairB asked to delete "pill",
\* and the one of pairA is still there
C24_Witness ==
    /\ invoked.name = "delete_reminder" /\ invoked.outcome = "ok"
    /\ invoked.args.pair_id = "pairB"
    /\ invoked.args.reminder_title = TitleFragment
    /\ returned # <<>> /\ returned[1] = "I've deleted the reminder '"
    /\ next_id = 3
    /\ Len(reminders) = 1
    /\ reminders[1].pair_id = "pairA" /\ reminders[1].title = PillsTitle

\* C25 as stated: in a run started with pair_id, the tools that the loop
\* executes create, list and delete reminders and create alerts for that
\* pair_id only, whatever the provider asks for: a ToolTurn leaves the
\* reminders and the alerts of every other pair as they are.
C25_RunPairOnly ==
    [][pc = "ToolTurn" =>
          \A q \in PairIds \ {state_pair_id} :
             /\ OwnedBy(reminders', q) = OwnedBy(reminders, q)
             /\ OwnedBy(emergency_alerts', q) = OwnedBy(emergency_alerts, q)
      ]_vars

\* the reminders that list_reminders(pair_id) shows at time t and whose title
\* contains the fragment
ShownMatches(pair_id, fragment, t) == UpcomingOf(pair_id, t) \cap MatchesOf(pair_id, fragment)

\* reminders without its i-th row
Without(i) == SubSeq(reminders, 1, i - 1) \o SubSeq(reminders, i + 1, Len(reminders))

\* C28 as stated: when list_reminders(pair) shows exactly one reminder whose
\* title contains the fragment, the delete_reminder(pair, fragment) that
\* follows and that the store answers deletes that reminder.
C28_DeletesWhatListShows ==
    [][(/\ DeleteAnswered
        /\ Cardinality(ShownMatches(invoked'.args.pair_id, invoked'.args.reminder_title,
                                    now)) = 1)
          => \E i \in ShownMatches(invoked'.args.pair_id, invoked'.args.reminder_title, now) :
                reminders' = Without(i)
      ]_vars

\* C28, amended: delete_reminder matches the fragment against every stored
\* reminder of the pair, the expired and unparsable ones that list_reminders
\* does not show as well.  When list_reminders shows exactly one match, the
\* delete_reminder that follows deletes it if no reminder that is not shown
\* matches too; otherwise it deletes nothing and names all the matches.
C28_DeleteMatchesAllStored ==
    [][(/\ DeleteAnswered
        /\ Cardinality(ShownMatches(invoked'.args.pair_id, invoked'.args.reminder_title,
                                    now)) = 1)
          => \E shown \in {ShownMatches(invoked'.args.pair_id,
                                        invoked'.args.reminder_title, now)},
                m \in {MatchesOf(invoked'.args.pair_id, invoked'.args.reminder_title)} :
                IF m = shown
                THEN \E i \in shown : reminders' = Without(i)
                ELSE /\ reminders' = reminders
                     /\ Len(ListedTitles(returned')) = Cardinality(m)
      ]_vars

\* one "Walk" is shown, another has expired: "WALK" matches both, and none is
\* deleted
C28_Witness ==
    /\ invoked.name = "delete_reminder" /\ invoked.outcome = "ok"
    /\ invoked.args.reminder_title = WalkFragment
    /\ now = StartTime
    /\ Len(reminders) = 2
    /\ \A i \in 1..2 : reminders[i].pair_id = invoked.args.pair_id
                          /\ reminders[i].title = WalkTitle
    /\ \E i, j \in 1..2 : reminders[i].date = PastDate /\ reminders[j].date = GoodDate
    /\ ListedTitles(returned) = <<WalkTitle, WalkTitle>>

\* C29 as stated: the lines that list_reminders returns are in chronological
\* order: the lines are those of the upcoming reminders of the pair, and the
\* date-time of the reminder of line n is not later than that of line n + 1.
C29_Chronological ==
    [][(invoked'.name = "list_reminders" /\ invoked'.outcome = "ok") =>
          \E up \in {UpcomingOf(invoked'.args.pair_id, now)},
             lines \in {ListedLines(returned')} :
             \E f \in Listings(up) :
                /\ \A n \in 1..Len(lines) :
                      lines[n] = ReminderLine(n, reminders[f[n]])
                /\ \A n \in 1..(Len(lines) - 1) :
                      TupleLeq(ParsedDateTime(reminders[f[n]]),
                               ParsedDateTime(reminders[f[n + 1]]))
      ]_vars

\* what the caller's history contributes to a run's first messages, entry by entry
RECURSIVE Converted(_)
Converted(history) ==
    IF history = <<>> THEN <<>>
    ELSE LET e == Head(history)
         IN (IF e.role = "user" THEN <<[type |-> "human", content |-> e.content]>>
             ELSE IF e.role = "assistant" THEN <<[type |-> "ai", content |-> e.content]>>
             ELSE <<>>)
            \o Converted(Tail(history))

\* a message without the fields only some message types carry
Plain(msg) == [type |-> msg.type, content |-> msg.content]

\* C30: the messages a run starts with are the caller's conversation_history in
\* order, 'user' entries as human messages and 'assistant' entries as AI messages
\* of the same content, entries of other roles left out, followed by the
\* current user message as the last one; building them leaves the
\* conversation memory as it was
C30_InitialSequence ==
    [][(pc = "Idle" /\ pc' = "AgentTurn") =>
          \E expected \in {Converted(run_args'.conversation_history)
                              \o <<[type |-> "human", content |-> run_args'.message]>>} :
             /\ Len(messages') = Len(expected)
             /\ \A n \in 1..Len(expected) : Plain(messages'[n]) = expected[n]
             /\ \A n \in 1..Len(expected) :
                   messages'[n].type = "ai" => messages'[n].tool_calls = <<>>
             /\ agent_conversations' = agent_conversations
      ]_vars

\* a run has started from a history whose first entry has another role and whose
\* second entry is the assistant's
C30_Witness ==
    /\ pc = "AgentTurn"
    /\ Len(run_args.conversation_history) = 2
    /\ run_args.conversation_history[1].role = "system"
    /\ run_args.conversation_history[2].role = "assistant"
    /\ Len(messages) = 2
    /\ messages[1].type = "ai"
    /\ messages[2] = HumanMessage(run_args.message)

(***************************************************************************)
(* Properties of concurrent tool invocations.                              *)
(***************************************************************************)
\* the one reminder that a delete_reminder found to match in its select
Target(data, call) == Matching(data, call.args.reminder_title)[1]

\* the invocation has returned "I've deleted the reminder ..."
ReportsDeleted(pcs, texts, w) ==
    pcs[w] = "done" /\ texts[w] # <<>> /\ texts[w][1] = "I've deleted the reminder '"

\* C26 as stated: however the store calls of two invocations for one pair
\* interleave, a delete_reminder removes a reminder only if, when it removes
\* it, that reminder is the only stored reminder of the pair that matches the
\* fragment, and no reminder is reported as deleted by both invocations.
C26_DeleteIsAtomic ==
    [][/\ \A w \in Workers :
             (wpc[w] = "l180" /\ wpc'[w] = "done" /\ reminders' # reminders)
                => \A i \in MatchesOf(wcall[w].args.pair_id, wcall[w].args.reminder_title) :
                      reminders[i].id = Target(wdata[w], wcall[w]).id
       /\ \A v, w \in Workers :
             (/\ v # w
              /\ ReportsDeleted(wpc', wtext', v)
              /\ ReportsDeleted(wpc', wtext', w))
                => Target(wdata'[v], wcall'[v]).id # Target(wdata'[w], wcall'[w]).id
      ]_vars

\* the entries of a list
Entries(xs) == {xs[i] : i \in 1..Len(xs)}

\* C27 as stated: when the calls for a key have returned, whatever the order
\* in which their statements ran, no append is lost: every one of the 10
\* entries appended last for the key is in the key's history.
C27_NoLostUpdate ==
    \A p \in PatientIds :
        (Quiescent(p) /\ appended[p] # <<>>)
           => /\ p \in DOMAIN agent_conversations
              /\ Entries(LastN(appended[p], HistoryCap)) \subseteq Entries(agent_conversations[p])

(***************************************************************************)
(* Properties of the transcription.                                        *)
(***************************************************************************)
\* the engine answered, and with nothing but whitespace
BlankAnswer == transcription # None /\ Strip(transcription) = <<>>

\* C21 as stated: when the engine's result is empty or all whitespace,
\* transcribe_audio_bytes returns None, with the OpenAI client as well as
\* with the local model, and it never returns an empty or whitespace-only
\* string.
C21_BlankIsNone ==
    spc = "returned" =>
       /\ BlankAnswer => transcribed = None
       /\ transcribed = None \/ Strip(transcribed) # <<>>

\* C22 as stated: when transcribe_audio_from_bytes has returned its file in
\* temp_whisper is gone, and when transcribe_audio_bytes has returned its file
\* in temp_audio is gone as well, whatever happened in the call, a failing
\* os.unlink included.
C22_TempFilesGone ==
    /\ spc \in {"l154", "returned"} => whisper_path \notin DOMAIN temp_files
    /\ spc = "returned" => temp_path \notin DOMAIN temp_files

====